---- MODULE Spec2Model ----
(***************************************************************************)
(* Evaluation engine of the context-handoff scorer: the evaluator service  *)
(* and its aggregation store (backend/evaluator/service.py,                *)
(* backend/db/aggregation.py, backend/evaluator/schema.py), the judge      *)
(* adapter (backend/evaluator/judge.py) and the provider client            *)
(* (backend/providers/fireworks.py).                                       *)
(*                                                                         *)
(* Numbers: a score is an integer count of millionths (Unit = 1.0), so     *)
(* the 1e-6 floor of the rollup is 1 and round(x, 4) rounds to a multiple  *)
(* of 100.                                                                 *)
(***************************************************************************)
EXTENDS Integers, Sequences, FiniteSets, TLC

VARIABLES
    eval_handoffs,   \* collection "eval_handoffs": documents in insertion order
    eval_pipelines,  \* collection "eval_pipelines": documents in insertion order
    ncalls,          \* number of service calls made so far (also the clock)
    result,          \* outcome of the latest service call
    issued,          \* history: pipeline_id and returned record of each successful
                     \* evaluate_and_store_handoff call, in call order
    lastFin,         \* history: per pipeline, what its latest successful finalize
                     \* returned and stored, and whether a handoff came after it
    rollIn,          \* rollup harness: the handoff list handed to compute_pipeline_rollup
    rollOut,         \* rollup harness: the PipelineScore returned, or None
    api_key,         \* provider: TRUE when a credential is configured
    jin,             \* judge call: the two contexts, each a sequence of words
    jpc,             \* judge call: "idle", "posting", "done"
    attempt,         \* _post: loop variable of the retry loop
    requests,        \* history: outcome of each HTTP request issued by the call
    sleeps,          \* history: the waits (seconds) slept by the call, in order
    jresult,         \* what judge_handoff_via_fireworks returned or raised
    jmode,           \* history: how the provider part of the call ended
    exIn,            \* extraction harness: the JSON text X, the prose around it, the fence
    exOut,           \* extraction harness: _extract_json of the bare and of the fenced text
    callIn,          \* function harness: the arguments of one call of a pure function
    callOut,         \* function harness: what the call returned or raised, or None
    finProc,         \* overlapping finalize calls: per caller, its position and locals
    writes           \* history: pipeline id and handoff list of each summary write

vars == <<eval_handoffs, eval_pipelines, ncalls, result, issued, lastFin,
          rollIn, rollOut, api_key, jin, jpc, attempt, requests, sleeps, jresult,
          jmode, exIn, exOut, callIn, callOut, finProc, writes>>

serviceVars == <<eval_handoffs, eval_pipelines, ncalls, result, issued, lastFin>>
rollupVars  == <<rollIn, rollOut>>
judgeVars   == <<api_key, jin, jpc, attempt, requests, sleeps, jresult, jmode>>
extractVars == <<exIn, exOut>>
harnessVars == <<callIn, callOut>>
overlapVars == <<finProc, writes>>

\* Python's None for a name-like value; an optional number or record is a
\* sequence of length 0 (None) or 1.
None == "None"
Nothing == <<>>
Some(x) == <<x>>
IsSome(o) == o # <<>>
The(o) == o[1]

(***************************************************************************)
(* Bounds and input sets                                                   *)
(***************************************************************************)
MaxCalls == 3        \* service calls per behaviour
MaxRollup == 2       \* longest handoff list handed to the rollup harness
MaxPieces == 2       \* pieces of text inside a generated JSON string

Unit == 1000000      \* 1.0 in millionths

PipelineIds == {"p1", "p2"}
HandoffIds == {"h1", "h2"}

\* Arguments of evaluate_and_store_handoff other than the two ids.  fidelity
\* and drift are the values evaluate_handoff computes for the two texts.
CallInputs ==
    { [context_sent |-> <<"sci", "fi", "fan">>, context_received |-> <<"sci", "fi">>,
       tokens_before |-> Nothing, tokens_after |-> Nothing, metadata |-> Nothing,
       fidelity |-> 816497, drift |-> 258418, temporal |-> Nothing,
       key_preserved |-> <<"sci">>,
       sent_vec |-> Nothing, received_vec |-> Nothing],
      [context_sent |-> <<"drama", "1999">>, context_received |-> <<"drama", "1999">>,
       tokens_before |-> Some(4), tokens_after |-> Some(2),
       metadata |-> Some([format |-> "json"]),
       fidelity |-> 1000000, drift |-> 0, temporal |-> Some(1000000),
       key_preserved |-> <<"drama", "1999">>,
       sent_vec |-> Nothing, received_vec |-> Nothing],
      [context_sent |-> <<"noir">>, context_received |-> <<"noir">>,
       tokens_before |-> Some(-1), tokens_after |-> Some(2), metadata |-> Nothing,
       fidelity |-> 1000000, drift |-> 0, temporal |-> Nothing,
       key_preserved |-> <<"noir">>,
       sent_vec |-> Nothing, received_vec |-> Nothing],
      [context_sent |-> <<"noir">>, context_received |-> <<"noir">>,
       tokens_before |-> Nothing, tokens_after |-> Nothing, metadata |-> Nothing,
       fidelity |-> 1000000, drift |-> 0, temporal |-> Nothing,
       key_preserved |-> <<"noir">>,
       sent_vec |-> <<<<1, 0>>>>, received_vec |-> <<<<1>>>>] }

(***************************************************************************)
(* Small helpers                                                           *)
(***************************************************************************)
Max(a, b) == IF a >= b THEN a ELSE b
Min(a, b) == IF a <= b THEN a ELSE b
Abs(a) == IF a >= 0 THEN a ELSE -a

RECURSIVE SumSeq(_)
SumSeq(s) == IF s = <<>> THEN 0 ELSE Head(s) + SumSeq(Tail(s))

RECURSIVE Pow2(_)
Pow2(n) == IF n = 0 THEN 1 ELSE 2 * Pow2(n - 1)

RECURSIVE MapSeqField(_, _)
MapSeqField(s, f) == IF s = <<>> THEN <<>> ELSE <<Head(s)[f]>> \o MapSeqField(Tail(s), f)

(***************************************************************************)
(* Exact arithmetic on naturals too large for one integer: little-endian   *)
(* sequences of base-1000 digits without leading zeros.  Used only to      *)
(* decide how a geometric mean rounds.                                     *)
(***************************************************************************)
RECURSIVE BigMulCarry(_, _, _)
BigMulCarry(b, m, carry) ==
    IF b = <<>>
    THEN IF carry = 0 THEN <<>> ELSE <<carry % 1000>> \o BigMulCarry(<<>>, m, carry \div 1000)
    ELSE LET t == Head(b) * m + carry
         IN  <<t % 1000>> \o BigMulCarry(Tail(b), m, t \div 1000)

\* b * m for a small m >= 1
BigMulSmall(b, m) == BigMulCarry(b, m, 0)

RECURSIVE BigProd(_)
BigProd(s) == IF s = <<>> THEN <<1>> ELSE BigMulSmall(BigProd(Tail(s)), Head(s))

RECURSIVE BigPow(_, _)
BigPow(m, n) == IF n = 0 THEN <<1>> ELSE BigMulSmall(BigPow(m, n - 1), m)

RECURSIVE BigLeqFrom(_, _, _)
BigLeqFrom(a, b, i) ==
    IF i = 0 THEN TRUE
    ELSE IF a[i] < b[i] THEN TRUE
    ELSE IF a[i] > b[i] THEN FALSE
    ELSE BigLeqFrom(a, b, i - 1)

BigLeq(a, b) ==
    IF Len(a) # Len(b) THEN Len(a) < Len(b) ELSE BigLeqFrom(a, b, Len(a))

(***************************************************************************)
(* backend/evaluator/schema.py                                             *)
(***************************************************************************)
\* Variant: only ge=0.0 is enforced
InUnitRange_lower_only(v) == v >= 0

InUnitRange(v) == v >= 0 /\ v <= Unit

\* EvalScores(...): Field(ge=0.0, le=1.0) on the three required scores and on
\* temporal_coherence when it is present; a violation raises.
EvalScoresValid(fidelity, drift, compression, temporal) ==
    /\ InUnitRange(fidelity) /\ InUnitRange(drift) /\ InUnitRange(compression)
    /\ (IsSome(temporal) => InUnitRange(The(temporal)))

EvalScores(fidelity, drift, compression, temporal) ==
    [fidelity |-> fidelity, drift |-> drift, compression |-> compression,
     temporal_coherence |-> temporal, response_utility |-> Nothing]

\* The fields class HandoffEvaluation declares.  The model has no
\* model_config, so a keyword that is not a declared field is ignored.
HandoffEvaluationFields ==
    {"handoff_id", "agent_from", "agent_to", "context_sent", "context_received",
     "eval_scores", "vectors", "key_info_preserved", "metadata", "timestamp"}

\* HandoffEvaluation built from the keywords kw, then model_dump(): the declared fields of kw;
\* timestamp defaults to the clock when kw does not carry one.
HandoffEvaluation(kw, now) ==
    [f \in HandoffEvaluationFields |->
        IF f \in DOMAIN kw THEN kw[f]
        ELSE IF f = "timestamp" THEN now
        ELSE IF f = "vectors" THEN None
        ELSE <<>>]

PipelineScoreValid(af, ad, tc, ee) ==
    InUnitRange(af) /\ InUnitRange(ad) /\ InUnitRange(tc) /\ InUnitRange(ee)

PipelineScore(af, ad, tc, ee) ==
    [avg_fidelity |-> af, avg_drift |-> ad, total_compression |-> tc,
     end_to_end_fidelity |-> ee]

PipelineEvaluation(pid, handoffs, score) ==
    [pipeline_id |-> pid, handoffs |-> handoffs, overall_pipeline_score |-> score]

(***************************************************************************)
(* backend/db/aggregation.py                                               *)
(***************************************************************************)
\* Index of the first document of the collection with this handoff_id, or 0
RECURSIVE FirstWithHandoffId(_, _, _)
FirstWithHandoffId(coll, hid, i) ==
    IF i > Len(coll) THEN 0
    ELSE IF coll[i].handoff_id = hid THEN i
    ELSE FirstWithHandoffId(coll, hid, i + 1)

\* Variant: replace_one({"handoff_id": ...}, doc, upsert=True) instead of insert_one
insert_handoff_replacing(coll, doc) ==
    LET i == FirstWithHandoffId(coll, doc.handoff_id, 1)
    IN  IF i = 0 THEN Append(coll, doc) ELSE Append([coll EXCEPT ![i] = doc], doc)

\* insert_one(doc.model_dump(by_alias=True))
insert_handoff(coll, doc) == Append(coll, doc)

\* Variant: the filter matches no document
MatchesPipeline_never(doc, pid) == FALSE

\* find({"pipeline_id": pipeline_id}): the documents that have a field
\* pipeline_id equal to the argument, in storage order, each rebuilt as a
\* HandoffEvaluation.
MatchesPipeline(doc, pid) == "pipeline_id" \in DOMAIN doc /\ doc["pipeline_id"] = pid

RECURSIVE get_handoffs_by_pipeline(_, _)
get_handoffs_by_pipeline(coll, pid) ==
    IF coll = <<>> THEN <<>>
    ELSE IF MatchesPipeline(Head(coll), pid)
         THEN <<HandoffEvaluation(Head(coll), 0)>> \o get_handoffs_by_pipeline(Tail(coll), pid)
         ELSE get_handoffs_by_pipeline(Tail(coll), pid)

\* round(total / n, 4): the multiple of 1e-4 nearest to total/n.  Exactly
\* half way between two multiples the binary value of the float decides in
\* Python; the model takes the even multiple there.
RoundMean4(total, n) ==
    LET q == (2 * total + 100 * n) \div (200 * n)
        tie == (2 * total + 100 * n) % (200 * n) = 0
    IN  100 * (IF tie /\ q % 2 = 1 THEN q - 1 ELSE q)

\* Largest r in lo..hi with (100r - 50)^n <= p, by bisection (r = 0 qualifies).
RECURSIVE RootSearch(_, _, _, _)
RootSearch(p, n, lo, hi) ==
    IF lo = hi THEN lo
    ELSE LET mid == (lo + hi + 1) \div 2
         IN  IF BigLeq(BigPow(100 * mid - 50, n), p)
             THEN RootSearch(p, n, mid, hi)
             ELSE RootSearch(p, n, lo, mid - 1)

\* max(f, 1e-6) of each fidelity
RECURSIVE FloorAll(_)
FloorAll(fs) == IF fs = <<>> THEN <<>> ELSE <<Max(Head(fs), 1)>> \o FloorAll(Tail(fs))

\* round(geometric_mean(fs), 4) for positive fs
GeoMeanRound4(fs) ==
    LET n == Len(fs)
        p == BigProd(fs)
        r == RootSearch(p, n, 0, Unit \div 100)
        tie == r > 0 /\ BigPow(100 * r - 50, n) = p
    IN  100 * (IF tie /\ r % 2 = 1 THEN r - 1 ELSE r)

\* Variant: end_to_end_fidelity taken from the arithmetic mean (the value of
\* the except branch) instead of the geometric mean
compute_pipeline_rollup_arithmetic(handoffs) ==
    IF handoffs = <<>>
    THEN PipelineScore(0, 0, 0, 0)
    ELSE LET scores == MapSeqField(handoffs, "eval_scores")
             n == Len(handoffs)
             avg == RoundMean4(SumSeq(MapSeqField(scores, "fidelity")), n)
         IN  PipelineScore(avg,
                           RoundMean4(SumSeq(MapSeqField(scores, "drift")), n),
                           RoundMean4(SumSeq(MapSeqField(scores, "compression")), n),
                           avg)

compute_pipeline_rollup(handoffs) ==
    IF handoffs = <<>>
    THEN PipelineScore(0, 0, 0, 0)
    ELSE LET scores == MapSeqField(handoffs, "eval_scores")
             fidelities == MapSeqField(scores, "fidelity")
             drifts == MapSeqField(scores, "drift")
             compressions == MapSeqField(scores, "compression")
             n == Len(handoffs)
         IN  PipelineScore(RoundMean4(SumSeq(fidelities), n),
                           RoundMean4(SumSeq(drifts), n),
                           RoundMean4(SumSeq(compressions), n),
                           GeoMeanRound4(FloorAll(fidelities)))

\* Index of the first document of the collection with this pipeline_id, or 0
RECURSIVE FirstMatch(_, _, _)
FirstMatch(coll, pid, i) ==
    IF i > Len(coll) THEN 0
    ELSE IF MatchesPipeline(coll[i], pid) THEN i
    ELSE FirstMatch(coll, pid, i + 1)

\* Variant: insert_one(payload), as insert_pipeline does
upsert_pipeline_rollup_inserting(coll, pid, score, handoffs) ==
    Append(coll, [pipeline_id |-> pid, handoffs |-> handoffs,
                  overall_pipeline_score |-> score])

\* update_one({"pipeline_id": pid}, {"$set": payload}, upsert=True)
upsert_pipeline_rollup(coll, pid, score, handoffs) ==
    LET payload == [pipeline_id |-> pid, handoffs |-> handoffs,
                    overall_pipeline_score |-> score]
        i == FirstMatch(coll, pid, 1)
    IN  IF i = 0 THEN Append(coll, payload)
        ELSE [coll EXCEPT ![i] =
                 [f \in DOMAIN coll[i] \cup DOMAIN payload |->
                     IF f \in DOMAIN payload THEN payload[f] ELSE coll[i][f]]]

\* The summary documents stored for a pipeline id
SummariesOf(coll, pid) == SelectSeq(coll, LAMBDA d : MatchesPipeline(d, pid))

(***************************************************************************)
(* backend/evaluator/metrics.py (the part the service needs)               *)
(***************************************************************************)
\* Variant: only tokens_before is tested
CompressionRaises_before_only(tokens_before, tokens_after) == tokens_before < 0

\* compute_compression_efficiency raises EvaluationMetricError
CompressionRaises(tokens_before, tokens_after) == tokens_before < 0 \/ tokens_after < 0

\* Variant: without the test for expansion and without max(0.0, ...)
compute_compression_efficiency_unclipped(tokens_before, tokens_after) ==
    ((tokens_before - tokens_after) * Unit) \div Max(tokens_before, 1)

\* (before - after) / max(before, 1), 0 on expansion
compute_compression_efficiency(tokens_before, tokens_after) ==
    IF tokens_after > tokens_before THEN 0
    ELSE Max(0, ((tokens_before - tokens_after) * Unit) \div Max(tokens_before, 1))

(***************************************************************************)
(* backend/evaluator/service.py                                            *)
(***************************************************************************)
\* len(text.strip().split()): a text is modelled as its sequence of words
_count_tokens(text) == Len(text)

\* metadata or {"format": ..., "tokens": {"before": tb, "after": ta}}
MetadataFor(metadata, tb, ta) ==
    IF IsSome(metadata) /\ DOMAIN The(metadata) # {}
    THEN The(metadata)
    ELSE [format |-> None, tokens |-> [before |-> tb, after |-> ta]]

Failure(op, pid, hid, err) ==
    [op |-> op, pipeline_id |-> pid, handoff_id |-> hid, ok |-> FALSE, value |-> err]

Success(op, pid, hid, val) ==
    [op |-> op, pipeline_id |-> pid, handoff_id |-> hid, ok |-> TRUE, value |-> val]

\* _cosine_similarity: a.shape != b.shape raises EvaluationMetricError; the
\* vectors are compared only when both are given
VectorShapesRaise(sent_vec, received_vec) ==
    /\ sent_vec # <<>> /\ received_vec # <<>>
    /\ Len(sent_vec[1]) # Len(received_vec[1])

\* Variant: the insert that raises has written the document
OnInsertFailure_written(coll, doc) == Append(coll, doc)

\* insert_one raised PyMongoError: the collection is as it was
OnInsertFailure(coll, doc) == coll

evaluate_and_store_handoff(pid, hid, in, storeOk) ==
    LET tb == IF IsSome(in.tokens_before) THEN The(in.tokens_before)
              ELSE _count_tokens(in.context_sent)
        ta == IF IsSome(in.tokens_after) THEN The(in.tokens_after)
              ELSE _count_tokens(in.context_received)
        compression == compute_compression_efficiency(tb, ta)
        scores == EvalScores(in.fidelity, in.drift, compression, in.temporal)
        doc == HandoffEvaluation(
                   [pipeline_id |-> pid, handoff_id |-> hid,
                    agent_from |-> "from", agent_to |-> "to",
                    context_sent |-> in.context_sent,
                    context_received |-> in.context_received,
                    eval_scores |-> scores, vectors |-> None,
                    key_info_preserved |-> in.key_preserved,
                    metadata |-> MetadataFor(in.metadata, tb, ta)],
                   ncalls + 1)
    IN  /\ ncalls < MaxCalls
        /\ ncalls' = ncalls + 1
        /\ UNCHANGED eval_pipelines
        /\ IF VectorShapesRaise(in.sent_vec, in.received_vec) \/ CompressionRaises(tb, ta)
           THEN /\ result' = Failure("evaluate", pid, hid, "EvaluationMetricError")
                /\ UNCHANGED <<eval_handoffs, issued, lastFin>>
           ELSE IF ~EvalScoresValid(in.fidelity, in.drift, compression, in.temporal)
           THEN /\ result' = Failure("evaluate", pid, hid, "ValidationError")
                /\ UNCHANGED <<eval_handoffs, issued, lastFin>>
           ELSE IF ~storeOk
           THEN /\ result' = Failure("evaluate", pid, hid, "EvaluatorServiceError")
                /\ eval_handoffs' = OnInsertFailure(eval_handoffs, doc)
                /\ UNCHANGED <<issued, lastFin>>
           ELSE /\ eval_handoffs' = insert_handoff(eval_handoffs, doc)
                /\ result' = Success("evaluate", pid, hid, doc)
                /\ issued' = Append(issued, [pipeline_id |-> pid, doc |-> doc])
                /\ lastFin' = [lastFin EXCEPT ![pid] =
                                  IF IsSome(@)
                                  THEN Some([The(@) EXCEPT !.stale = TRUE, !.runs = 0])
                                  ELSE @]

finalize_pipeline(pid, readOk, writeOk) ==
    LET handoffs == get_handoffs_by_pipeline(eval_handoffs, pid)
        score == compute_pipeline_rollup(handoffs)
        summary == PipelineEvaluation(pid, handoffs, score)
        stored == upsert_pipeline_rollup(eval_pipelines, pid, score, handoffs)
    IN  /\ ncalls < MaxCalls
        /\ ncalls' = ncalls + 1
        /\ UNCHANGED <<eval_handoffs, issued>>
        /\ IF ~readOk
           THEN /\ result' = Failure("finalize", pid, None, "AggregationError")
                /\ UNCHANGED <<eval_pipelines, lastFin>>
           ELSE IF ~writeOk
           THEN /\ result' = Failure("finalize", pid, None, "EvaluatorServiceError")
                /\ UNCHANGED <<eval_pipelines, lastFin>>
           ELSE /\ eval_pipelines' = stored
                /\ result' = Success("finalize", pid, None, summary)
                /\ lastFin' = [lastFin EXCEPT ![pid] =
                                  Some([score |-> score,
                                        stored |-> SummariesOf(stored, pid),
                                        stale |-> FALSE,
                                        runs |-> IF IsSome(@) THEN The(@).runs + 1
                                                 ELSE 1])]

Evaluate ==
    /\ \E pid \in PipelineIds, hid \in HandoffIds, in \in CallInputs, storeOk \in BOOLEAN :
          evaluate_and_store_handoff(pid, hid, in, storeOk)
    /\ UNCHANGED <<rollupVars, judgeVars, extractVars, harnessVars, overlapVars>>

Finalize ==
    /\ \E pid \in PipelineIds, readOk \in BOOLEAN, writeOk \in BOOLEAN :
          finalize_pipeline(pid, readOk, writeOk)
    /\ UNCHANGED <<rollupVars, judgeVars, extractVars, harnessVars, overlapVars>>

IdleRollup == rollIn = <<>> /\ rollOut = Nothing
IdleJudge ==
    /\ api_key = TRUE /\ jpc = "idle" /\ attempt = 0 /\ requests = <<>>
    /\ jin = [context_sent |-> <<>>, context_received |-> <<>>]
    /\ sleeps = <<>> /\ jresult = [kind |-> "pending"] /\ jmode = None
IdleExtract == exIn = Nothing /\ exOut = Nothing
IdleHarness == callIn = Nothing /\ callOut = Nothing
FinProcs == {"f1", "f2"}
IdleCaller == [pc |-> "idle", pipeline_id |-> None, handoffs |-> <<>>, seen |-> 0]
IdleOverlap ==
    /\ finProc = [f \in FinProcs |-> IdleCaller]
    /\ writes = <<>>
IdleService ==
    /\ eval_handoffs = <<>> /\ eval_pipelines = <<>> /\ ncalls = 0
    /\ result = [op |-> "none", pipeline_id |-> None, handoff_id |-> None,
                 ok |-> TRUE, value |-> None]
    /\ issued = <<>> /\ lastFin = [p \in PipelineIds |-> Nothing]

Init ==
    IdleService /\ IdleRollup /\ IdleJudge /\ IdleExtract /\ IdleHarness /\ IdleOverlap

Next == Evaluate \/ Finalize

Spec == Init /\ [][Next]_vars

(***************************************************************************)
(* Claims about the service and the store                                  *)
(***************************************************************************)
\* The records returned by the successful evaluate_and_store_handoff calls
\* made with pipeline id pid, in call order
DocsIssuedFor(pid) ==
    MapSeqField(SelectSeq(issued, LAMBDA c : c.pipeline_id = pid), "doc")

FinalizeReturned == result.op = "finalize" /\ result.ok
EvaluateReturned == result.op = "evaluate" /\ result.ok

\* C1: after n successful evaluate_and_store_handoff calls for pipeline p,
\* finalize_pipeline(p) returns and stores a PipelineEvaluation whose handoffs
\* are exactly the n records persisted for p.
C1_FinalizeListsExactlyThePipelinesHandoffs ==
    FinalizeReturned =>
        LET pid == result.pipeline_id
            docs == SummariesOf(eval_pipelines, pid)
        IN  /\ result.value.handoffs = DocsIssuedFor(pid)
            /\ Len(docs) = 1
            /\ docs[1].handoffs = DocsIssuedFor(pid)

\* C2: a finalize_pipeline(p) that follows a finalize_pipeline(p) with no
\* handoff stored for p in between returns the same PipelineScore and leaves
\* the stored summary of p as the earlier call left it.
C2_FinalizeIdempotent ==
    [][ (result'.op = "finalize" /\ result'.ok
            /\ IsSome(lastFin[result'.pipeline_id])
            /\ ~The(lastFin[result'.pipeline_id]).stale)
        => LET pid == result'.pipeline_id
           IN  /\ result'.value.overall_pipeline_score = The(lastFin[pid]).score
               /\ SummariesOf(eval_pipelines', pid) = The(lastFin[pid]).stored ]_vars

\* Witness of C2: some pipeline with a stored handoff call was finalized twice
\* in a row.
C2_Witness ==
    \E pid \in PipelineIds :
        /\ IsSome(lastFin[pid]) /\ The(lastFin[pid]).runs >= 2
        /\ DocsIssuedFor(pid) # <<>>
        /\ FinalizeReturned /\ result.pipeline_id = pid

\* C3: the stored summary of p changes only in finalize_pipeline: a handoff
\* stored after a finalize leaves the summary as it was, and the next
\* finalize_pipeline(p) makes the summary list all current handoffs of p with
\* the rollup computed from them.
C3_SummaryStaleUntilNextFinalize ==
    [][ /\ (result'.op = "evaluate" => eval_pipelines' = eval_pipelines)
        /\ (result'.op = "finalize" /\ result'.ok
               /\ IsSome(lastFin[result'.pipeline_id])
               /\ The(lastFin[result'.pipeline_id]).stale)
           => LET pid == result'.pipeline_id
                  docs == SummariesOf(eval_pipelines', pid)
              IN  /\ Len(docs) = 1
                  /\ docs[1].handoffs = DocsIssuedFor(pid)
                  /\ docs[1].overall_pipeline_score =
                         compute_pipeline_rollup(DocsIssuedFor(pid)) ]_vars

\* C4: a successful evaluate_and_store_handoff adds exactly one record to the
\* handoff store and changes no stored record and no summary; finalize_pipeline
\* leaves the handoff store as it is.
C4_HandoffsAppendOnly ==
    [][ /\ (result'.op = "evaluate" /\ result'.ok)
           => /\ Len(eval_handoffs') = Len(eval_handoffs) + 1
              /\ SubSeq(eval_handoffs', 1, Len(eval_handoffs)) = eval_handoffs
              /\ eval_handoffs'[Len(eval_handoffs')] = result'.value
              /\ eval_pipelines' = eval_pipelines
        /\ result'.op = "finalize" => eval_handoffs' = eval_handoffs ]_vars

\* Witness of C4: a handoff was stored next to an earlier one with the same
\* handoff_id while a summary exists, and a finalize ran with handoffs stored.
C4_Witness ==
    /\ EvaluateReturned
    /\ Len(eval_handoffs) >= 2
    /\ eval_handoffs[1].handoff_id = eval_handoffs[Len(eval_handoffs)].handoff_id
    /\ eval_pipelines # <<>>

(***************************************************************************)
(* compute_pipeline_rollup applied to handoff lists drawn from a small set *)
(* of scores, next to finalize_pipeline on a store without handoffs        *)
(***************************************************************************)
\* <<fidelity, drift, compression>> of the handoffs the lists are made of
RollupScores ==
    { <<0, 1000000, 0>>, <<40, 999960, 0>>, <<123456, 876544, 333333>>,
      <<250000, 700000, 500000>>, <<816497, 258418, 0>>, <<900000, 100000, 400000>>,
      <<1000000, 0, 0>> }

RollupHandoffs ==
    { HandoffEvaluation([handoff_id |-> "h1", agent_from |-> "from", agent_to |-> "to",
                         eval_scores |-> EvalScores(t[1], t[2], t[3], Nothing)], 0) :
        t \in RollupScores }

RollupLists ==
    UNION { [1..n -> RollupHandoffs] : n \in 0..MaxRollup }

InitRollup ==
    /\ IdleService /\ IdleJudge /\ IdleExtract /\ IdleHarness /\ IdleOverlap
    /\ rollIn \in RollupLists
    /\ rollOut = Nothing

ComputeRollup ==
    /\ rollOut = Nothing
    /\ rollOut' = Some(compute_pipeline_rollup(rollIn))
    /\ UNCHANGED <<rollIn, serviceVars, judgeVars, extractVars, harnessVars, overlapVars>>

NextRollup == ComputeRollup \/ Finalize

SpecRollup == InitRollup /\ [][NextRollup]_vars

ZeroScore == PipelineScore(0, 0, 0, 0)

RollFidelities == MapSeqField(MapSeqField(rollIn, "eval_scores"), "fidelity")
RollDrifts == MapSeqField(MapSeqField(rollIn, "eval_scores"), "drift")
RollCompressions == MapSeqField(MapSeqField(rollIn, "eval_scores"), "compression")

\* v is the multiple of 1e-4 nearest to total / n
IsRounded4Mean(v, total, n) ==
    v % 100 = 0 /\ 2 * Abs(n * v - total) <= 100 * n

\* v is the multiple of 1e-4 nearest to the n-th root of the product of fs
IsRounded4GeoMean(v, fs) ==
    LET n == Len(fs)
        p == BigProd(fs)
    IN  /\ v % 100 = 0
        /\ v >= 100 => BigLeq(BigPow(v - 50, n), p)
        /\ BigLeq(p, BigPow(v + 50, n))

\* C10 as stated: the rollup of the empty list is all zero, and otherwise the
\* three averages equal the arithmetic means and end_to_end_fidelity equals
\* the geometric mean of the floored fidelities, which for one handoff is
\* that handoff's fidelity.
C10_RollupIsExactMeans ==
    IsSome(rollOut) =>
        LET out == The(rollOut)
            n == Len(rollIn)
        IN  IF n = 0 THEN out = ZeroScore
            ELSE /\ n * out.avg_fidelity = SumSeq(RollFidelities)
                 /\ n * out.avg_drift = SumSeq(RollDrifts)
                 /\ n * out.total_compression = SumSeq(RollCompressions)
                 /\ BigPow(Max(out.end_to_end_fidelity, 1), n) = BigProd(FloorAll(RollFidelities))
                 /\ n = 1 => out.end_to_end_fidelity = RollFidelities[1]

\* C10 amended: the rollup of the empty list is all zero, and finalize_pipeline
\* on an id without handoffs returns and stores that zero score; otherwise
\* each of the three averages is the arithmetic mean rounded to 4 decimals and
\* end_to_end_fidelity is the geometric mean of the fidelities, each floored at
\* 1e-6, rounded to 4 decimals (for one handoff: its floored fidelity rounded
\* to 4 decimals).
C10_RollupIsRoundedMeans ==
    /\ IsSome(rollOut) =>
          LET out == The(rollOut)
              n == Len(rollIn)
          IN  IF n = 0 THEN out = ZeroScore
              ELSE /\ IsRounded4Mean(out.avg_fidelity, SumSeq(RollFidelities), n)
                   /\ IsRounded4Mean(out.avg_drift, SumSeq(RollDrifts), n)
                   /\ IsRounded4Mean(out.total_compression, SumSeq(RollCompressions), n)
                   /\ IsRounded4GeoMean(out.end_to_end_fidelity, FloorAll(RollFidelities))
                   /\ n = 1 => IsRounded4Mean(out.end_to_end_fidelity,
                                              Max(RollFidelities[1], 1), 1)
    /\ (FinalizeReturned /\ result.value.handoffs = <<>>) =>
          /\ result.value.overall_pipeline_score = ZeroScore
          /\ SummariesOf(eval_pipelines, result.pipeline_id)
                = <<[pipeline_id |-> result.pipeline_id, handoffs |-> <<>>,
                     overall_pipeline_score |-> ZeroScore]>>

\* Witness of C10: a rollup of two handoffs with different fidelities whose
\* geometric mean lies below the arithmetic mean, and a finalize of an id
\* without handoffs.
C10_Witness ==
    /\ IsSome(rollOut) /\ Len(rollIn) = 2
    /\ RollFidelities[1] = 250000 /\ RollFidelities[2] = 1000000
    /\ The(rollOut).end_to_end_fidelity = 500000
    /\ The(rollOut).avg_fidelity = 625000
    /\ FinalizeReturned /\ result.value.handoffs = <<>>

(***************************************************************************)
(* backend/evaluator/judge.py: JSON extraction.  A text is a sequence of   *)
(* symbols: one-character strings, or a word of letters written as one     *)
(* symbol where its spelling plays no part.  A parsed JSON value is a      *)
(* record                                                                  *)
(* [t, s, m]: t the type ("obj", "arr", "str", "num"), s the characters of *)
(* a string or number, m the members <<[k, v], ...>> of an object or array;*)
(* NoJson stands for None.                                                 *)
(***************************************************************************)
Whitespace == {" ", "\n"}
Digits == {"0", "1", "2", "5", "7", "9"}
Quote == "\""
\* The backquote character is written "^": a string constant cannot hold it
Tick == "^"
Fence == <<Tick, Tick, Tick>>
FenceJson == Fence \o <<"j", "s", "o", "n">>
TagOpen == <<"<", "j", "s", "o", "n", ">">>
TagClose == <<"<", "/", "j", "s", "o", "n", ">">>

NoJson == [t |-> "none", s |-> <<>>, m |-> <<>>]
JsonStr(chars) == [t |-> "str", s |-> chars, m |-> <<>>]
JsonNum(chars) == [t |-> "num", s |-> chars, m |-> <<>>]
JsonObj(members) == [t |-> "obj", s |-> <<>>, m |-> members]
JsonArr(members) == [t |-> "arr", s |-> <<>>, m |-> members]

ParseFail == [ok |-> FALSE, next |-> 0, val |-> NoJson]
ParseOk(next, val) == [ok |-> TRUE, next |-> next, val |-> val]

CharAt(t, i) == IF i >= 1 /\ i <= Len(t) THEN t[i] ELSE "EOF"

IsPrefixAt(t, i, p) ==
    /\ i >= 1 /\ i + Len(p) - 1 <= Len(t)
    /\ SubSeq(t, i, i + Len(p) - 1) = p

\* First position >= i that holds no whitespace (Len(t) + 1 at the end)
RECURSIVE SkipWs(_, _)
SkipWs(t, i) == IF CharAt(t, i) \in Whitespace THEN SkipWs(t, i + 1) ELSE i

\* Last position <= i that holds no whitespace (0 when there is none)
RECURSIVE SkipWsBack(_, _)
SkipWsBack(t, i) == IF CharAt(t, i) \in Whitespace THEN SkipWsBack(t, i - 1) ELSE i

\* text.strip()
Strip(t) == SubSeq(t, SkipWs(t, 1), SkipWsBack(t, Len(t)))

\* First position >= i holding character c, or 0
RECURSIVE Find(_, _, _)
Find(t, c, i) ==
    IF i > Len(t) THEN 0 ELSE IF t[i] = c THEN i ELSE Find(t, c, i + 1)

\* Last position <= i holding character c, or 0
RECURSIVE RFind(_, _, _)
RFind(t, c, i) ==
    IF i < 1 THEN 0 ELSE IF t[i] = c THEN i ELSE RFind(t, c, i - 1)

\* End of the run of number characters starting at i
RECURSIVE NumEnd(_, _)
NumEnd(t, i) ==
    IF CharAt(t, i) \in Digits \cup {"-", "."} THEN NumEnd(t, i + 1) ELSE i - 1

AllDigits(cs) == cs # <<>> /\ \A k \in 1..Len(cs) : cs[k] \in Digits

\* The JSON number grammar: optional minus, integer part without leading
\* zero, optional fraction
IsJsonNumber(cs) ==
    LET body == IF cs # <<>> /\ cs[1] = "-" THEN Tail(cs) ELSE cs
        dot == Find(body, ".", 1)
        int == IF dot = 0 THEN body ELSE SubSeq(body, 1, dot - 1)
        frac == IF dot = 0 THEN <<>> ELSE SubSeq(body, dot + 1, Len(body))
    IN  /\ AllDigits(int)
        /\ Len(int) > 1 => int[1] # "0"
        /\ dot # 0 => AllDigits(frac)

\* A string has no escapes: it ends at the next quote
ParseString(t, i) ==
    LET j == Find(t, Quote, i + 1)
    IN  IF CharAt(t, i) = Quote /\ j # 0
        THEN ParseOk(j + 1, JsonStr(SubSeq(t, i + 1, j - 1)))
        ELSE ParseFail

ParseNumber(t, i) ==
    LET e == NumEnd(t, i)
    IN  IF e >= i /\ IsJsonNumber(SubSeq(t, i, e))
        THEN ParseOk(e + 1, JsonNum(SubSeq(t, i, e)))
        ELSE ParseFail

RECURSIVE ParseValue(_, _)
RECURSIVE ParseMembers(_, _, _)
RECURSIVE ParseElements(_, _, _)

\* The members of an object from position i (after "{" or ","), acc so far
ParseMembers(t, i, acc) ==
    LET key == ParseString(t, SkipWs(t, i))
        colon == SkipWs(t, key.next)
        val == ParseValue(t, colon + 1)
        after == SkipWs(t, val.next)
        members == Append(acc, [k |-> key.val.s, v |-> val.val])
    IN  IF ~key.ok \/ CharAt(t, colon) # ":" THEN ParseFail
        ELSE IF ~val.ok THEN ParseFail
        ELSE IF CharAt(t, after) = "}" THEN ParseOk(after + 1, JsonObj(members))
        ELSE IF CharAt(t, after) = "," THEN ParseMembers(t, after + 1, members)
        ELSE ParseFail

\* The elements of an array from position i (after "[" or ","), acc so far
ParseElements(t, i, acc) ==
    LET val == ParseValue(t, i)
        after == SkipWs(t, val.next)
        members == Append(acc, [k |-> <<>>, v |-> val.val])
    IN  IF ~val.ok THEN ParseFail
        ELSE IF CharAt(t, after) = "]" THEN ParseOk(after + 1, JsonArr(members))
        ELSE IF CharAt(t, after) = "," THEN ParseElements(t, after + 1, members)
        ELSE ParseFail

ParseValue(t, i) ==
    LET j == SkipWs(t, i)
        c == CharAt(t, j)
    IN  IF c = "{"
        THEN IF CharAt(t, SkipWs(t, j + 1)) = "}"
             THEN ParseOk(SkipWs(t, j + 1) + 1, JsonObj(<<>>))
             ELSE ParseMembers(t, j + 1, <<>>)
        ELSE IF c = "["
        THEN IF CharAt(t, SkipWs(t, j + 1)) = "]"
             THEN ParseOk(SkipWs(t, j + 1) + 1, JsonArr(<<>>))
             ELSE ParseElements(t, j + 1, <<>>)
        ELSE IF c = Quote THEN ParseString(t, j)
        ELSE IF c \in Digits \cup {"-"} THEN ParseNumber(t, j)
        ELSE ParseFail

\* json.loads(t): one value, surrounded by whitespace only
JsonLoads(t) ==
    LET r == ParseValue(t, 1)
    IN  IF r.ok /\ SkipWs(t, r.next) = Len(t) + 1 THEN r ELSE ParseFail

\* End e of the shortest group {...} starting at b that is followed by
\* whitespace and close, or 0
RECURSIVE LazyGroupEnd(_, _, _)
LazyGroupEnd(t, e, close) ==
    IF e > Len(t) THEN 0
    ELSE IF t[e] = "}" /\ IsPrefixAt(t, SkipWs(t, e + 1), close) THEN e
    ELSE LazyGroupEnd(t, e + 1, close)

\* re.search of the pattern: open, whitespace, a lazy group from "{" to "}",
\* whitespace, close.  Group 1 of the leftmost match as Some(text), or Nothing
RECURSIVE SearchGroup(_, _, _, _)
SearchGroup(t, i, open, close) ==
    IF i > Len(t) THEN Nothing
    ELSE LET b == SkipWs(t, i + Len(open))
             e == LazyGroupEnd(t, b + 1, close)
         IN  IF IsPrefixAt(t, i, open) /\ CharAt(t, b) = "{" /\ e # 0
             THEN Some(SubSeq(t, b, e))
             ELSE SearchGroup(t, i + 1, open, close)

\* The three code_block_patterns, in order
CodeBlockPatterns == << <<FenceJson, Fence>>, <<Fence, Fence>>, <<TagOpen, TagClose>> >>

\* The for loop over code_block_patterns from pattern k on
RECURSIVE TryCodeBlocks(_, _)
TryCodeBlocks(t, k) ==
    IF k > Len(CodeBlockPatterns) THEN ParseFail
    ELSE LET g == SearchGroup(t, 1, CodeBlockPatterns[k][1], CodeBlockPatterns[k][2])
             r == IF IsSome(g) THEN JsonLoads(The(g)) ELSE ParseFail
         IN  IF r.ok THEN r ELSE TryCodeBlocks(t, k + 1)

\* _JSON_BLOCK_RE.search(t): from the first "{" that has a "}" after it to
\* the last "}"
GreedyBlock(t) ==
    LET first == Find(t, "{", 1)
        last == RFind(t, "}", Len(t))
    IN  IF first # 0 /\ last > first THEN JsonLoads(SubSeq(t, first, last)) ELSE ParseFail

\* text[first_brace:last_brace + 1]
BraceSlice(t) ==
    LET first == Find(t, "{", 1)
        last == RFind(t, "}", Len(t))
    IN  IF first # 0 /\ last # 0 /\ last > first
        THEN JsonLoads(SubSeq(t, first, last)) ELSE ParseFail

\* Variant: the code blocks are searched before the direct parse
_extract_json_blocks_first(text) ==
    LET t == Strip(text)
        direct == JsonLoads(t)
        block == TryCodeBlocks(t, 1)
        greedy == GreedyBlock(t)
        slice == BraceSlice(t)
    IN  IF text = <<>> THEN NoJson
        ELSE IF block.ok THEN block.val
        ELSE IF direct.ok THEN direct.val
        ELSE IF greedy.ok THEN greedy.val
        ELSE IF slice.ok THEN slice.val
        ELSE NoJson

_extract_json(text) ==
    LET t == Strip(text)
        direct == JsonLoads(t)
        block == TryCodeBlocks(t, 1)
        greedy == GreedyBlock(t)
        slice == BraceSlice(t)
    IN  IF text = <<>> THEN NoJson
        ELSE IF direct.ok THEN direct.val
        ELSE IF block.ok THEN block.val
        ELSE IF greedy.ok THEN greedy.val
        ELSE IF slice.ok THEN slice.val
        ELSE NoJson

(***************************************************************************)
(* _extract_json applied to a JSON object text X, bare and inside a        *)
(* ```json fence with prose around it                                      *)
(***************************************************************************)
RECURSIVE Flatten(_)
Flatten(ss) == IF ss = <<>> THEN <<>> ELSE Head(ss) \o Flatten(Tail(ss))

Quoted(body) == <<Quote>> \o body \o <<Quote>>

\* What a generated JSON string is made of
StrPieces == { <<"a">>, <<" ">>, <<"{">>, <<"}">>, Fence }

StrBodies ==
    { Flatten(ps) : ps \in UNION { [1..n -> StrPieces] : n \in 0..MaxPieces } }

ValueTexts ==
    { Quoted(b) : b \in StrBodies }
    \cup { <<"0", ".", "9">> }
    \cup { <<"{">> \o Quoted(<<"b">>) \o <<":">> \o Quoted(b) \o <<"}">> : b \in StrBodies }

ObjectTexts ==
    { <<"{", "}">> }
    \cup { <<"{">> \o Quoted(<<"a">>) \o <<":">> \o v \o <<"}">> : v \in ValueTexts }

ProseTexts == { <<>>, <<"o", "k">>, <<"s", "e", "e", " ", "{", "a", "}">> }
GapTexts == { <<>>, <<"\n">> }

\* The response that wraps x in a ```json fence
FencedText(in) ==
    in.pre \o in.gap \o FenceJson \o in.gap \o in.x \o in.gap \o Fence \o in.gap \o in.post

InitExtract ==
    /\ IdleService /\ IdleRollup /\ IdleJudge /\ IdleHarness /\ IdleOverlap
    /\ exIn \in { Some([x |-> x, pre |-> pre, post |-> post, gap |-> gap]) :
                    x \in ObjectTexts, pre \in ProseTexts, post \in ProseTexts,
                    gap \in GapTexts }
    /\ exOut = Nothing

ExtractBoth ==
    /\ exOut = Nothing
    /\ exOut' = Some([bare |-> _extract_json(The(exIn).x),
                      fenced |-> _extract_json(FencedText(The(exIn)))])
    /\ UNCHANGED <<exIn, serviceVars, rollupVars, judgeVars, harnessVars, overlapVars>>

NextExtract == ExtractBoth

SpecExtract == InitExtract /\ [][NextExtract]_vars

\* C9: for every JSON object X and every prose around it, the response that
\* wraps X in a ```json fence is extracted to the same object as the response
\* that consists of X alone.
C9_FencedExtractsLikeBare ==
    IsSome(exOut) =>
        /\ The(exOut).bare.t = "obj"
        /\ The(exOut).fenced = The(exOut).bare

(***************************************************************************)
(* backend/evaluator/judge.py: grading, normalisation, heuristic fallback  *)
(***************************************************************************)
_calculate_grade(overall_score) ==
    IF overall_score >= 900000 THEN "A"
    ELSE IF overall_score >= 800000 THEN "B"
    ELSE IF overall_score >= 700000 THEN "C"
    ELSE IF overall_score >= 600000 THEN "D"
    ELSE "F"

\* fidelity*0.35 + (1 - drift)*0.25 + completeness*0.25 + consistency*0.15,
\* computed in hundredths of the weights to stay within the integers; the
\* floating-point sum can fall one ulp short of a grade threshold
_calculate_overall_score(e) ==
    (e.fidelity \div 100) * 35 + ((Unit - e.drift) \div 100) * 25
        + (e.completeness \div 100) * 25 + (e.consistency \div 100) * 15

\* HandoffEvaluation.to_dict() of the dataclass of judge.py
to_dict(e, kind) ==
    [kind |-> kind, fidelity |-> e.fidelity, drift |-> e.drift,
     completeness |-> e.completeness, consistency |-> e.consistency,
     preserved |-> e.preserved_facts, lost |-> e.lost_facts, added |-> e.added_facts,
     reasoning |-> e.reasoning, grade |-> e.quality_grade,
     recommendations |-> e.recommendations,
     overall_score |-> _calculate_overall_score(e)]

\* The keys of the dictionary to_dict builds
ResultKeys ==
    {"fidelity", "drift", "completeness", "consistency", "preserved", "lost",
     "added", "reasoning", "grade", "recommendations", "overall_score"}

NoneResult == [kind |-> "none"]
Raised(err) == [kind |-> "raised", error |-> err]

DigitVal(c) ==
    CASE c = "0" -> 0 [] c = "1" -> 1 [] c = "2" -> 2 [] c = "5" -> 5
      [] c = "7" -> 7 [] c = "9" -> 9

\* Value of a digit string, saturating at 2000 (far outside [0, 1] already)
RECURSIVE IntVal(_, _)
IntVal(cs, acc) ==
    IF cs = <<>> THEN acc
    ELSE IntVal(Tail(cs), Min(2000, 10 * acc + DigitVal(Head(cs))))

\* The first six decimals of a fraction, in millionths
RECURSIVE FracVal(_, _)
FracVal(cs, weight) ==
    IF cs = <<>> \/ weight = 0 THEN 0
    ELSE DigitVal(Head(cs)) * weight + FracVal(Tail(cs), weight \div 10)

\* float(value) for the characters of a number or of a string: Some(millionths)
\* or Nothing when float raises ValueError
FloatOf(cs) ==
    LET neg == cs # <<>> /\ cs[1] = "-"
        body == IF neg THEN Tail(cs) ELSE cs
        dot == Find(body, ".", 1)
        int == IF dot = 0 THEN body ELSE SubSeq(body, 1, dot - 1)
        frac == IF dot = 0 THEN <<>> ELSE SubSeq(body, dot + 1, Len(body))
        mag == IntVal(int, 0) * Unit + FracVal(frac, Unit \div 10)
        wellFormed == /\ \A k \in 1..Len(int) : int[k] \in Digits
                      /\ \A k \in 1..Len(frac) : frac[k] \in Digits
                      /\ int # <<>> \/ frac # <<>>
    IN  IF wellFormed THEN Some(IF neg THEN -mag ELSE mag) ELSE Nothing

\* data.get(key): the value of the last member with this key, or NoJson
RECURSIVE Lookup(_, _, _)
Lookup(members, key, i) ==
    IF i < 1 THEN NoJson
    ELSE IF members[i].k = key THEN members[i].v
    ELSE Lookup(members, key, i - 1)

DataGet(data, key) == Lookup(data.m, <<key>>, Len(data.m))

\* Variant: float(value) is returned as it is
validate_score_unclamped(data, key, default) ==
    LET value == DataGet(data, key)
        f == IF value.t \in {"num", "str"} THEN FloatOf(value.s) ELSE Nothing
    IN  IF value.t = "none" THEN default
        ELSE IF IsSome(f) THEN The(f)
        ELSE default

\* validate_score(key, default)
validate_score(data, key, default) ==
    LET value == DataGet(data, key)
        f == IF value.t \in {"num", "str"} THEN FloatOf(value.s) ELSE Nothing
    IN  IF value.t = "none" THEN Max(0, Min(Unit, default))
        ELSE IF IsSome(f) THEN Max(0, Min(Unit, The(f)))
        ELSE default

\* validate_list(key, max_items): [str(x)[:300] for x in value[:max_items]];
\* the elements that occur are strings and numbers, kept as their characters
validate_list(data, key, max_items) ==
    LET value == DataGet(data, key)
    IN  IF value.t # "arr" THEN <<>>
        ELSE [i \in 1..Min(Len(value.m), max_items) |-> value.m[i].v.s]

_normalize_evaluation(data) ==
    LET e == [fidelity |-> validate_score(data, "fidelity", 500000),
              drift |-> validate_score(data, "drift", 500000),
              completeness |-> validate_score(data, "completeness", 500000),
              consistency |-> validate_score(data, "consistency", 800000),
              preserved_facts |-> validate_list(data, "preserved", 15),
              lost_facts |-> validate_list(data, "lost", 10),
              added_facts |-> validate_list(data, "added", 10),
              reasoning |-> IF DataGet(data, "reasoning").t = "none"
                            THEN <<"No detailed reasoning provided.">>
                            ELSE DataGet(data, "reasoning").s,
              quality_grade |-> "",
              recommendations |-> validate_list(data, "recommendations", 5)]
    IN  [e EXCEPT !.quality_grade = _calculate_grade(_calculate_overall_score(e))]

\* len(text) of a context given as its words, single spaces between them
RECURSIVE CharLen(_)
CharLen(words) ==
    IF words = <<>> THEN 0
    ELSE Len(Head(words)) + (IF Len(words) > 1 THEN 1 ELSE 0) + CharLen(Tail(words))

WordSet(words) == { words[i] : i \in 1..Len(words) }

_create_fallback_evaluation(context_sent, context_received) ==
    LET sent_len == CharLen(context_sent)
        recv_len == CharLen(context_received)
        length_ratio == Min((recv_len * Unit) \div Max(sent_len, 1), Unit)
        sent_words == WordSet(context_sent)
        recv_words == WordSet(context_received)
        overlap == Cardinality(sent_words \cap recv_words)
        union == Cardinality(sent_words \cup recv_words)
        keyword_overlap == (overlap * Unit) \div Max(union, 1)
        fidelity == (length_ratio + keyword_overlap) \div 2
        drift == Unit - keyword_overlap
        completeness == length_ratio
    IN  to_dict([fidelity |-> fidelity, drift |-> drift,
                 completeness |-> completeness, consistency |-> 700000,
                 preserved_facts |-> <<"[Heuristic evaluation - detailed analysis unavailable]">>,
                 lost_facts |-> <<>>, added_facts |-> <<>>,
                 reasoning |-> <<"Fallback heuristic evaluation due to LLM parsing failure.">>,
                 quality_grade |->
                     _calculate_grade((fidelity + (Unit - drift) + completeness) \div 3),
                 recommendations |-> <<"Re-run evaluation with proper LLM response",
                                       "Check context format compatibility">>],
                "fallback")

(***************************************************************************)
(* backend/providers/fireworks.py: the request loop and judge_text         *)
(***************************************************************************)
max_retries == 3

HttpErrors == {"http403", "http429", "http500"}

\* What one urlopen call can do: answer 200, answer an HTTP error status,
\* fail to connect (URLError), or fail otherwise (a read timeout, a reset)
Outcomes == {"ok"} \cup HttpErrors \cup {"urlerror", "oserror"}

IsRateLimit_or429(outcome) == outcome \in {"http403", "http429"}

\* e.code == 403
IsRateLimit(outcome) == outcome = "http403"

\* attempt < max_retries - 1
MayRetry(a) == a < max_retries - 1

wait_time_fixed(a) == 1

\* wait_time = 2 ** attempt
wait_time(a) == Pow2(a)

Retry(a) == [next |-> "retry", wait |-> Some(wait_time(a))]
Ends(how) == [next |-> how, wait |-> Nothing]

\* One iteration of the loop of _post, for attempt a (counted from 0)
_post_attempt(a, outcome, body) ==
    IF outcome = "ok"
    THEN IF body.shape = "not_json" THEN Ends("raise_other") ELSE Ends("return")
    ELSE IF outcome \in HttpErrors
    THEN IF IsRateLimit(outcome) /\ MayRetry(a) THEN Retry(a) ELSE Ends("raise_provider")
    ELSE IF outcome = "urlerror"
    THEN IF MayRetry(a) THEN Retry(a) ELSE Ends("raise_provider")
    ELSE Ends("raise_other")

\* judge_text once _post has ended: what reaches judge_handoff
judge_text(ended, body) ==
    IF ended = "raise_provider" THEN [kind |-> "provider_error", text |-> <<>>]
    ELSE IF ended = "raise_other" THEN [kind |-> "none", text |-> <<>>]
    ELSE IF body.shape \in {"not_object", "no_choices", "no_content"}
    THEN [kind |-> "none", text |-> <<>>]
    ELSE IF body.shape \in {"content_dict", "content_number"}
    THEN [kind |-> "none", text |-> <<>>]      \* content[:200] raises, caught
    ELSE IF body.shape = "content_list" THEN [kind |-> "list", text |-> <<>>]
    ELSE [kind |-> "text", text |-> body.text]

(***************************************************************************)
(* backend/evaluator/judge.py: judge_handoff_via_fireworks                 *)
(***************************************************************************)
OnNoJsonDict_absent(context_sent, context_received) == NoneResult

\* if not isinstance(data, dict): return _create_fallback_evaluation(...)
OnNoJsonDict(context_sent, context_received) ==
    _create_fallback_evaluation(context_sent, context_received)

\* judge_handoff_via_fireworks from the return of judge_text on
JudgeOutcome(out, in) ==
    IF out.kind \in {"provider_error", "none"} THEN NoneResult
    ELSE IF out.kind = "list" THEN Raised("AttributeError")
    ELSE LET data == _extract_json(out.text)
         IN  IF data.t # "obj"
             THEN OnNoJsonDict(in.context_sent, in.context_received)
             ELSE to_dict(_normalize_evaluation(data), "judged")

\* Which way the call went
JudgeMode(ended, out) ==
    IF ended = "raise_provider" THEN "provider_error"
    ELSE IF ended = "raise_other" THEN "raw_error"
    ELSE IF out.kind = "none" THEN "empty"
    ELSE IF out.kind = "list" THEN "content_not_text"
    ELSE IF _extract_json(out.text).t # "obj" THEN "no_json"
    ELSE "judged"

Member(key, valueText) == Quoted(<<key>>) \o <<":">> \o valueText

T_good ==
    <<"{">> \o Member("fidelity", <<"0", ".", "9">>) \o <<",">>
        \o Member("drift", <<"0", ".", "1">>) \o <<",">>
        \o Member("preserved", <<"[">> \o Quoted(<<"a">>) \o <<"]">>) \o <<"}">>
T_fenced == <<"o", "k", "\n">> \o FenceJson \o <<"\n">> \o T_good \o <<"\n">> \o Fence
T_range ==
    <<"{">> \o Member("fidelity", <<"1", ".", "5">>) \o <<",">>
        \o Member("drift", <<"-", "1">>) \o <<"}">>
T_types ==
    <<"{">> \o Member("fidelity", Quoted(<<"a">>)) \o <<",">>
        \o Member("drift", <<"[", "1", "]">>) \o <<",">>
        \o Member("completeness", Quoted(<<"0", ".", "9">>)) \o <<"}">>
T_other == <<"{">> \o Member("a", Quoted(<<"b">>)) \o <<"}">>

\* Non-empty texts a 200 response can carry
JudgeTexts ==
    {T_good, T_fenced, T_range, T_types, T_other,
     <<"[", "1", "]">>, <<"7">>, Quoted(<<"a">>), <<"o", "k">>, <<" ">>}

\* Bodies of a 200 response
ProviderBodies ==
    { [shape |-> sh, text |-> <<>>] :
        sh \in {"not_json", "not_object", "no_choices", "no_content",
                "content_dict", "content_number", "content_list"} }
    \cup { [shape |-> "content_text", text |-> t] : t \in JudgeTexts }

NoBody == [shape |-> "no_content", text |-> <<>>]

Contexts == { <<>>, <<"alpha">>, <<"alpha", "beta">>, <<"alpha", "beta", "alpha">> }

\* Variant: the provider always reports itself available
available_always == TRUE

\* FireworksJudge.available: bool(self.api_key)
available == api_key

JudgeBegin ==
    /\ jpc = "idle"
    /\ IF available
       THEN jpc' = "posting" /\ UNCHANGED <<jresult, jmode>>
       ELSE jpc' = "done" /\ jresult' = NoneResult /\ jmode' = "unavailable"
    /\ UNCHANGED <<api_key, jin, attempt, requests, sleeps,
                   serviceVars, rollupVars, extractVars, harnessVars, overlapVars>>

\* One pass of the loop of _post; when the loop ends, the rest of judge_text
\* and of judge_handoff_via_fireworks runs with it
PostAttempt(outcome, body) ==
    /\ jpc = "posting"
    /\ IF attempt >= max_retries
       THEN \* raise FireworksProviderError("Max retries exceeded")
            /\ jpc' = "done" /\ jresult' = NoneResult /\ jmode' = "provider_error"
            /\ UNCHANGED <<attempt, requests, sleeps>>
       ELSE LET step == _post_attempt(attempt, outcome, body)
                out == judge_text(step.next, body)
            IN  /\ requests' = Append(requests, outcome)
                /\ IF step.next = "retry"
                   THEN /\ sleeps' = Append(sleeps, The(step.wait))
                        /\ attempt' = attempt + 1
                        /\ UNCHANGED <<jpc, jresult, jmode>>
                   ELSE /\ jpc' = "done"
                        /\ jresult' = JudgeOutcome(out, jin)
                        /\ jmode' = JudgeMode(step.next, out)
                        /\ UNCHANGED <<attempt, sleeps>>
    /\ UNCHANGED <<api_key, jin, serviceVars, rollupVars, extractVars,
                   harnessVars, overlapVars>>

InitJudge ==
    /\ IdleService /\ IdleRollup /\ IdleExtract /\ IdleHarness /\ IdleOverlap
    /\ api_key \in BOOLEAN
    /\ jin \in [context_sent : Contexts, context_received : Contexts]
    /\ jpc = "idle" /\ attempt = 0 /\ requests = <<>> /\ sleeps = <<>>
    /\ jresult = [kind |-> "pending"] /\ jmode = None

NextJudge ==
    \/ JudgeBegin
    \/ \E outcome \in Outcomes \ {"ok"} : PostAttempt(outcome, NoBody)
    \/ \E body \in ProviderBodies : PostAttempt("ok", body)

SpecJudge == InitJudge /\ [][NextJudge]_vars

\* The loop is run to its end: every pass is followed by the next
SpecJudgeLive == SpecJudge /\ WF_vars(NextJudge)

(***************************************************************************)
(* Claims about the judge adapter and the provider's request loop          *)
(***************************************************************************)
JudgeReturned == jpc = "done"

LastRequest == requests[Len(requests)]

Grades == {"A", "B", "C", "D", "F"}

\* A result object that can be used: every key present, scores in [0, 1]
UsableResult(r) ==
    /\ ResultKeys \subseteq DOMAIN r
    /\ r.fidelity \in 0..Unit /\ r.drift \in 0..Unit
    /\ r.grade \in Grades

C6_JudgeNeverRaises == jresult.kind # "raised"

\* Attempts are bounded by max_retries, the waits between them are 1s, 2s and
\* doubling, and a run of nothing but rate-limit responses makes max_retries
\* requests and ends with a provider error
RateLimitRetriesBounded ==
    /\ Len(requests) <= max_retries
    /\ \A i \in DOMAIN sleeps : sleeps[i] = Pow2(i - 1)
    /\ jpc = "posting" => (attempt < max_retries /\ Len(requests) = attempt
                           /\ Len(sleeps) = attempt)
    /\ (JudgeReturned /\ requests # <<>>) => Len(sleeps) = Len(requests) - 1
    /\ (JudgeReturned /\ requests # <<>>
            /\ \A i \in DOMAIN requests : requests[i] = "http403")
         => (Len(requests) = max_retries /\ sleeps = <<1, 2>>
             /\ jmode = "provider_error")

ResponseModes == {"empty", "content_not_text", "no_json", "judged"}

\* C7 as stated: a request that keeps being rate-limited is attempted at most
\* 3 times, with waits of 1s then 2s (doubling) between attempts, and then
\* ends with a provider error; the loop always terminates, with either a
\* response or a provider error.
C7_LoopEndsWithResponseOrProviderError ==
    /\ [](/\ RateLimitRetriesBounded
          /\ (JudgeReturned /\ requests # <<>>)
                => jmode \in ResponseModes \cup {"provider_error"})
    /\ <>JudgeReturned

\* C7 amended: as stated, except that the loop terminates with a response, a
\* provider error, or - when the request fails with anything other than an
\* HTTP error or a URLError (a read timeout, a body that is not JSON) - with
\* that exception passed on unchanged.
C7_LoopEndsWithResponseOrError ==
    /\ [](/\ RateLimitRetriesBounded
          /\ (JudgeReturned /\ requests # <<>>) =>
                /\ jmode \in ResponseModes \cup {"provider_error", "raw_error"}
                /\ jmode \in ResponseModes => LastRequest = "ok"
                /\ jmode = "provider_error" => LastRequest \in HttpErrors \cup {"urlerror"}
                /\ jmode = "raw_error" => LastRequest \in {"oserror", "ok"})
    /\ <>JudgeReturned

C7_Witness ==
    /\ JudgeReturned /\ requests = <<"http403", "http403", "http403">>
    /\ sleeps = <<1, 2>> /\ jmode = "provider_error" /\ jresult = NoneResult

LowerSeq ==
    <<"a", "b", "c", "d", "e", "f", "g", "h", "i", "j", "k", "l", "m",
      "n", "o", "p", "q", "r", "s", "t", "u", "v", "w", "x", "y", "z">>
UpperSeq ==
    <<"A", "B", "C", "D", "E", "F", "G", "H", "I", "J", "K", "L", "M",
      "N", "O", "P", "Q", "R", "S", "T", "U", "V", "W", "X", "Y", "Z">>
DecimalDigits == {"0", "1", "2", "3", "4", "5", "6", "7", "8", "9"}

IsUpper(c) == \E i \in 1..26 : UpperSeq[i] = c
IsLower(c) == \E i \in 1..26 : LowerSeq[i] = c

\* str.lower() of one character
Lower(c) == IF IsUpper(c) THEN LowerSeq[CHOOSE i \in 1..26 : UpperSeq[i] = c] ELSE c

LowerText(t) == [i \in 1..Len(t) |-> Lower(t[i])]

\* [A-Za-z0-9]
IsAlnum(c) == IsUpper(c) \/ IsLower(c) \/ c \in DecimalDigits

\* \w of the regular expressions
IsWordChar(c) == IsAlnum(c) \/ c = "_"

\* _TOKEN_RE.findall(text), each token lower-cased
RECURSIVE TokensFrom(_, _, _)
TokensFrom(t, i, cur) ==
    IF i > Len(t) THEN (IF cur = <<>> THEN <<>> ELSE <<cur>>)
    ELSE IF IsAlnum(t[i]) THEN TokensFrom(t, i + 1, Append(cur, Lower(t[i])))
    ELSE (IF cur = <<>> THEN <<>> ELSE <<cur>>) \o TokensFrom(t, i + 1, <<>>)

_tokenize(text) == TokensFrom(text, 1, <<>>)

\* Counter(tokens)[t]
CountOf(tokens, t) == Cardinality({ i \in DOMAIN tokens : tokens[i] = t })

\* The keys of Counter(tokens), in order of first occurrence
RECURSIVE Distinct(_, _)
Distinct(tokens, seen) ==
    IF tokens = <<>> THEN <<>>
    ELSE IF Head(tokens) \in seen THEN Distinct(Tail(tokens), seen)
    ELSE <<Head(tokens)>> \o Distinct(Tail(tokens), seen \cup {Head(tokens)})

SeqSet(s) == { s[i] : i \in DOMAIN s }

RemoveAt(s, i) == SubSeq(s, 1, i - 1) \o SubSeq(s, i + 1, Len(s))

\* Counter.most_common(k): by count, the earlier key first among equals
RECURSIVE MostCommon(_, _, _)
MostCommon(keys, tokens, k) ==
    IF k = 0 \/ keys = <<>> THEN <<>>
    ELSE LET best == CHOOSE i \in DOMAIN keys :
                        /\ \A j \in DOMAIN keys :
                              CountOf(tokens, keys[j]) <= CountOf(tokens, keys[i])
                        /\ \A j \in 1..(i - 1) :
                              CountOf(tokens, keys[j]) < CountOf(tokens, keys[i])
         IN  <<keys[best]>> \o MostCommon(RemoveAt(keys, best), tokens, k - 1)

_top_k_terms(tokens, k) == MostCommon(Distinct(tokens, {}), tokens, k)

\* A natural number as base-1000 digits
RECURSIVE ToBig(_)
ToBig(n) == IF n = 0 THEN <<>> ELSE <<n % 1000>> \o ToBig(n \div 1000)

\* Largest f in lo..hi with (2f - 1)^2 * d <= bound, by bisection
RECURSIVE RootBelow(_, _, _, _)
RootBelow(d, bound, lo, hi) ==
    IF lo = hi THEN lo
    ELSE LET mid == (lo + hi + 1) \div 2
             lhs == BigMulSmall(BigMulSmall(d, 2 * mid - 1), 2 * mid - 1)
         IN  IF BigLeq(lhs, bound) THEN RootBelow(d, bound, mid, hi)
             ELSE RootBelow(d, bound, lo, mid - 1)

\* The millionth nearest to n / sqrt(d), for 0 < n <= sqrt(d)
NearestRoot(n, d) ==
    RootBelow(ToBig(d), BigMulSmall(BigMulSmall(ToBig(4 * n * n), Unit), Unit), 0, Unit)

\* _cosine_on_term_freq: 0 without vocabulary or with a zero norm, else
\* dot / (norm * norm)
_cosine_on_term_freq(a_tokens, b_tokens) ==
    LET vocab == Distinct(a_tokens \o b_tokens, {})
        dot == SumSeq([i \in 1..Len(vocab) |->
                          CountOf(a_tokens, vocab[i]) * CountOf(b_tokens, vocab[i])])
        na2 == SumSeq([i \in 1..Len(vocab) |->
                          CountOf(a_tokens, vocab[i]) * CountOf(a_tokens, vocab[i])])
        nb2 == SumSeq([i \in 1..Len(vocab) |->
                          CountOf(b_tokens, vocab[i]) * CountOf(b_tokens, vocab[i])])
    IN  IF vocab = <<>> \/ na2 = 0 \/ nb2 = 0 \/ dot = 0 THEN 0
        ELSE NearestRoot(dot, na2 * nb2)

\* numer / denom to the nearest millionth, 0.0 for a zero denominator
_safe_ratio(numer, denom) ==
    IF denom = 0 THEN 0 ELSE (2 * numer * Unit + denom) \div (2 * denom)

compute_fidelity(context_sent, context_received) ==
    Max(0, Min(Unit, _cosine_on_term_freq(_tokenize(context_sent),
                                          _tokenize(context_received))))

compute_relevance_drift(context_sent, context_received) ==
    LET base_drift == Unit - compute_fidelity(context_sent, context_received)
        a_top == SeqSet(_top_k_terms(_tokenize(context_sent), 10))
        b_top == SeqSet(_top_k_terms(_tokenize(context_received), 10))
        jacc == _safe_ratio(Cardinality(a_top \cap b_top), Cardinality(a_top \cup b_top))
        term_drift == Unit - jacc
    IN  IF a_top = {} /\ b_top = {} THEN base_drift
        ELSE Max(0, Min(Unit, (base_drift + term_drift) \div 2))

\* _YEAR_RE matches at i: a word boundary, 19 or 20, two digits, a word boundary
YearAt(t, i) ==
    /\ i + 3 <= Len(t)
    /\ i = 1 \/ ~IsWordChar(t[i - 1])
    /\ <<t[i], t[i + 1]>> \in { <<"1", "9">>, <<"2", "0">> }
    /\ t[i + 2] \in DecimalDigits /\ t[i + 3] \in DecimalDigits
    /\ i + 3 = Len(t) \/ ~IsWordChar(t[i + 4])

\* _YEAR_RE.findall(text): the pattern has one group, (19|20), so findall
\* yields the text of that group for each match
RECURSIVE YearFindall(_, _)
YearFindall(t, i) ==
    IF i > Len(t) THEN <<>>
    ELSE IF YearAt(t, i) THEN <<SubSeq(t, i, i + 1)>> \o YearFindall(t, i + 4)
    ELSE YearFindall(t, i + 1)

\* _ISO_DATE_RE matches at i: dddd-dd-dd between word boundaries
DateAt(t, i) ==
    /\ i + 9 <= Len(t)
    /\ i = 1 \/ ~IsWordChar(t[i - 1])
    /\ \A k \in {0, 1, 2, 3, 5, 6, 8, 9} : t[i + k] \in DecimalDigits
    /\ t[i + 4] = "-" /\ t[i + 7] = "-"
    /\ i + 9 = Len(t) \/ ~IsWordChar(t[i + 10])

\* _ISO_DATE_RE.findall(text): no group, so the whole match
RECURSIVE DateFindall(_, _)
DateFindall(t, i) ==
    IF i > Len(t) THEN <<>>
    ELSE IF DateAt(t, i) THEN <<SubSeq(t, i, i + 9)>> \o DateFindall(t, i + 10)
    ELSE DateFindall(t, i + 1)

\* Some(score) or Nothing for None
compute_temporal_coherence(context_sent, context_received) ==
    LET years_a_norm == SeqSet(YearFindall(context_sent, 1))
        years_b_norm == SeqSet(YearFindall(context_received, 1))
        dates_a == SeqSet(DateFindall(context_sent, 1))
        dates_b == SeqSet(DateFindall(context_received, 1))
        have_signal == /\ years_a_norm # {} \/ dates_a # {}
                       /\ years_b_norm # {} \/ dates_b # {}
        a_markers == years_a_norm \cup dates_a
        b_markers == years_b_norm \cup dates_b
        inter == Cardinality(a_markers \cap b_markers)
        union == Cardinality(a_markers \cup b_markers)
    IN  IF ~have_signal THEN Nothing
        ELSE Some(Max(0, Min(Unit, _safe_ratio(inter, union))))

\* evaluate_handoff: the tuple, or the error compute_compression_efficiency raises
evaluate_handoff(context_sent, context_received, tokens_before, tokens_after) ==
    LET counted == IsSome(tokens_before) /\ IsSome(tokens_after)
    IN  IF counted /\ CompressionRaises(The(tokens_before), The(tokens_after))
        THEN [error |-> "EvaluationMetricError", fidelity |-> 0, drift |-> 0,
              compression |-> 0, temporal |-> Nothing]
        ELSE [error |-> None,
              fidelity |-> compute_fidelity(context_sent, context_received),
              drift |-> compute_relevance_drift(context_sent, context_received),
              compression |->
                  IF counted
                  THEN compute_compression_efficiency(The(tokens_before), The(tokens_after))
                  ELSE 0,
              temporal |-> compute_temporal_coherence(context_sent, context_received)]

(***************************************************************************)
(* The metric functions applied to texts built from a few words and to     *)
(* small token counts                                                      *)
(***************************************************************************)
MaxWords == 2        \* words in a generated text
MaxTokens == 4       \* largest token count handed to a metric

\* Words of the texts given to evaluate_handoff
MetricWords ==
    { <<"s", "c", "i">>, <<"F", "i">>,
      <<"1", "9", "9", "9", "-", "0", "1", "-", "0", "5">> }

\* Words of the texts given to compute_temporal_coherence
TemporalWords ==
    { <<"2", "0", "2", "0">>, <<"2", "0", "2", "1">>,
      <<"1", "9", "9", "9">>, <<"x", "2", "0", "2", "0">>,
      <<"2", "0", "2", "0", "-", "0", "8", "-", "2", "6">> }

\* " ".join(words)
RECURSIVE JoinWords(_)
JoinWords(ws) ==
    IF ws = <<>> THEN <<>>
    ELSE IF Len(ws) = 1 THEN Head(ws)
    ELSE Head(ws) \o <<" ">> \o JoinWords(Tail(ws))

TextsOf(words) ==
    { JoinWords(ws) : ws \in UNION { [1..n -> words] : n \in 0..MaxWords } }

\* <<tokens_before, tokens_after>> given to evaluate_handoff
TokenPairs ==
    { <<Nothing, Nothing>>, <<Some(1), Nothing>>, <<Some(0), Some(0)>>,
      <<Some(MaxTokens), Some(1)>>, <<Some(1), Some(MaxTokens)>> }

EvaluateHandoffCalls ==
    { [fn |-> "evaluate_handoff", context_sent |-> a, context_received |-> b,
       tokens_before |-> tk[1], tokens_after |-> tk[2]] :
        a \in TextsOf(MetricWords), b \in TextsOf(MetricWords), tk \in TokenPairs }

TemporalCalls ==
    { [fn |-> "compute_temporal_coherence", context_sent |-> a, context_received |-> b,
       tokens_before |-> Nothing, tokens_after |-> Nothing] :
        a \in TextsOf(TemporalWords), b \in TextsOf(TemporalWords) }

CompressionCalls ==
    { [fn |-> "compute_compression_efficiency", context_sent |-> <<>>,
       context_received |-> <<>>, tokens_before |-> Some(tb), tokens_after |-> Some(ta)] :
        tb \in -1..MaxTokens, ta \in -1..MaxTokens }

InitMetrics ==
    /\ IdleService /\ IdleRollup /\ IdleJudge /\ IdleExtract /\ IdleOverlap
    /\ callIn \in { Some(c) : c \in EvaluateHandoffCalls \cup TemporalCalls
                                    \cup CompressionCalls }
    /\ callOut = Nothing

Called(fn) == callIn # Nothing /\ callOut = Nothing /\ The(callIn).fn = fn

CallEvaluateHandoff ==
    /\ Called("evaluate_handoff")
    /\ callOut' = Some(evaluate_handoff(The(callIn).context_sent,
                                        The(callIn).context_received,
                                        The(callIn).tokens_before,
                                        The(callIn).tokens_after))
    /\ UNCHANGED <<callIn, serviceVars, rollupVars, judgeVars, extractVars, overlapVars>>

CallTemporalCoherence ==
    /\ Called("compute_temporal_coherence")
    /\ callOut' = Some([error |-> None,
                        temporal |-> compute_temporal_coherence(
                                         The(callIn).context_sent,
                                         The(callIn).context_received)])
    /\ UNCHANGED <<callIn, serviceVars, rollupVars, judgeVars, extractVars, overlapVars>>

CallCompression ==
    /\ Called("compute_compression_efficiency")
    /\ LET tb == The(The(callIn).tokens_before)
           ta == The(The(callIn).tokens_after)
       IN  callOut' = Some(IF CompressionRaises(tb, ta)
                           THEN [error |-> "EvaluationMetricError", compression |-> 0]
                           ELSE [error |-> None,
                                 compression |-> compute_compression_efficiency(tb, ta)])
    /\ UNCHANGED <<callIn, serviceVars, rollupVars, judgeVars, extractVars, overlapVars>>

NextMetrics == CallEvaluateHandoff \/ CallTemporalCoherence \/ CallCompression

SpecMetrics == InitMetrics /\ [][NextMetrics]_vars

(***************************************************************************)
(* Claims about the metric functions                                       *)
(***************************************************************************)
Returned(fn) == callOut # Nothing /\ The(callIn).fn = fn

NonNegative(o) == IsSome(o) => The(o) >= 0

\* C11: for all text pairs, empty texts included, and all non-negative token
\* counts, evaluate_handoff returns fidelity, drift and compression each within
\* [0, 1] and a temporal coherence that is absent or within [0, 1].
C11_EvaluateHandoffScoresInRange ==
    (/\ Returned("evaluate_handoff")
     /\ NonNegative(The(callIn).tokens_before)
     /\ NonNegative(The(callIn).tokens_after))
        => LET r == The(callOut)
           IN  /\ r.error = None
               /\ InUnitRange(r.fidelity) /\ InUnitRange(r.drift)
               /\ InUnitRange(r.compression)
               /\ IsSome(r.temporal) => InUnitRange(The(r.temporal))

\* Witness of C11: a call with an expansion of tokens and one with scores
\* strictly inside the range and a temporal coherence present
C11_Witness ==
    /\ Returned("evaluate_handoff")
    /\ The(callIn).tokens_before = Some(MaxTokens) /\ The(callIn).tokens_after = Some(1)
    /\ The(callOut).fidelity \in 1..(Unit - 1)
    /\ The(callOut).drift \in 1..(Unit - 1)
    /\ The(callOut).compression \in 1..(Unit - 1)
    /\ IsSome(The(callOut).temporal)

\* C12: compute_compression_efficiency(before, after) is (before - after) /
\* max(before, 1) when 0 <= after <= before, exactly 0 when after > before, and
\* raises the metric domain error when either count is negative.
C12_CompressionEfficiency ==
    Returned("compute_compression_efficiency") =>
        LET tb == The(The(callIn).tokens_before)
            ta == The(The(callIn).tokens_after)
            r == The(callOut)
        IN  IF tb < 0 \/ ta < 0 THEN r.error = "EvaluationMetricError"
            ELSE /\ r.error = None
                 /\ IF ta > tb THEN r.compression = 0
                    ELSE /\ r.compression * Max(tb, 1) <= (tb - ta) * Unit
                         /\ (tb - ta) * Unit < (r.compression + 1) * Max(tb, 1)

\* Witness of C12: a true compression was scored
C12_Witness ==
    /\ Returned("compute_compression_efficiency")
    /\ The(callIn).tokens_before = Some(MaxTokens) /\ The(callIn).tokens_after = Some(1)
    /\ The(callOut).error = None
    /\ The(callOut).compression = ((MaxTokens - 1) * Unit) \div MaxTokens

\* The year markers of a text: the four-digit years _YEAR_RE matches, in full
RECURSIVE YearMarkers(_, _)
YearMarkers(t, i) ==
    IF i > Len(t) THEN {}
    ELSE IF YearAt(t, i) THEN {SubSeq(t, i, i + 3)} \cup YearMarkers(t, i + 4)
    ELSE YearMarkers(t, i + 1)

\* The year and ISO-date markers of a text
Markers(t) == YearMarkers(t, 1) \cup SeqSet(DateFindall(t, 1))

Jaccard(a, b) == _safe_ratio(Cardinality(a \cap b), Cardinality(a \cup b))

\* C13: compute_temporal_coherence returns absent exactly when one of the two
\* texts has no year or ISO-date marker; when both have markers it returns the
\* Jaccard similarity of the two marker sets, a number in [0, 1].
C13_TemporalCoherenceIsJaccardOfMarkers ==
    Returned("compute_temporal_coherence") =>
        LET a == Markers(The(callIn).context_sent)
            b == Markers(The(callIn).context_received)
            r == The(callOut).temporal
        IN  /\ r = Nothing <=> (a = {} \/ b = {})
            /\ IsSome(r) => (The(r) = Jaccard(a, b) /\ InUnitRange(The(r)))

\* C14: when both texts have year markers, no ISO date, and no year in common,
\* compute_temporal_coherence returns 0.
C14_DisjointYearsScoreZero ==
    Returned("compute_temporal_coherence") =>
        LET a == The(callIn).context_sent
            b == The(callIn).context_received
        IN  (/\ YearMarkers(a, 1) # {} /\ YearMarkers(b, 1) # {}
             /\ DateFindall(a, 1) = <<>> /\ DateFindall(b, 1) = <<>>
             /\ YearMarkers(a, 1) \cap YearMarkers(b, 1) = {})
                => The(callOut).temporal = Some(0)

(***************************************************************************)
(* backend/evaluator/extract.py                                            *)
(***************************************************************************)
_STOPWORDS ==
    { <<"t", "h", "e">>, <<"a", "n", "d">>, <<"f", "o", "r">>, <<"w", "i", "t", "h">>,
      <<"t", "h", "a", "t">>, <<"t", "h", "i", "s">>, <<"f", "r", "o", "m">>,
      <<"y", "o", "u", "r">>, <<"y", "o", "u">>, <<"a", "r", "e">>, <<"w", "a", "s">>,
      <<"w", "e", "r", "e">>, <<"h", "a", "v", "e">>, <<"h", "a", "s">>,
      <<"h", "a", "d">>, <<"i", "n", "t", "o">>, <<"a", "b", "o", "u", "t">>,
      <<"b", "a", "s", "e", "d">>, <<"s", "i", "m", "i", "l", "a", "r">> }

DigitChars == <<"0", "1", "2", "3", "4", "5", "6", "7", "8", "9">>

\* str(i) for an index below 100
IntStr(i) ==
    IF i < 10 THEN <<DigitChars[i + 1]>>
    ELSE <<DigitChars[(i \div 10) + 1], DigitChars[(i % 10) + 1]>>

\* The items of the dict json.loads builds from the members of an object: a
\* repeated key keeps its first place and takes its last value
RECURSIVE DictItems(_, _, _)
DictItems(members, i, seen) ==
    IF i > Len(members) THEN <<>>
    ELSE IF members[i].k \in seen THEN DictItems(members, i + 1, seen)
    ELSE <<[k |-> members[i].k, v |-> Lookup(members, members[i].k, Len(members))]>>
             \o DictItems(members, i + 1, seen \cup {members[i].k})

RECURSIVE _flatten_json_keys(_, _)
RECURSIVE FlattenItems(_, _)
RECURSIVE FlattenElements(_, _, _)

\* for k, v in data.items()
FlattenItems(items, prefix) ==
    IF items = <<>> THEN <<>>
    ELSE LET key == IF prefix # <<>> THEN prefix \o <<".">> \o Head(items).k
                    ELSE Head(items).k
         IN  <<key>> \o _flatten_json_keys(Head(items).v, key)
                 \o FlattenItems(Tail(items), prefix)

\* for i, v in enumerate(data[:20]), from index i on
FlattenElements(elems, i, prefix) ==
    IF i >= Len(elems) \/ i >= 20 THEN <<>>
    ELSE _flatten_json_keys(elems[i + 1].v, prefix \o <<"[">> \o IntStr(i) \o <<"]">>)
             \o FlattenElements(elems, i + 1, prefix)

_flatten_json_keys(data, prefix) ==
    IF data.t = "obj" THEN FlattenItems(DictItems(data.m, 1, {}), prefix)
    ELSE IF data.t = "arr" THEN FlattenElements(data.m, 0, prefix)
    ELSE <<>>

_try_parse_json(text) ==
    LET obj == JsonLoads(text)
    IN  IF obj.ok THEN _flatten_json_keys(obj.val, <<>>) ELSE <<>>

\* _QUOTE_RE.finditer from position i: a quote, at least three characters
\* that are not that quote, the same quote; the group is stripped
RECURSIVE QuotedFrom(_, _)
QuotedFrom(t, i) ==
    IF i > Len(t) THEN <<>>
    ELSE LET j == IF t[i] \in {Quote, "'"} THEN Find(t, t[i], i + 1) ELSE 0
         IN  IF j # 0 /\ j - i - 1 >= 3
             THEN <<Strip(SubSeq(t, i + 1, j - 1))>> \o QuotedFrom(t, j + 1)
             ELSE QuotedFrom(t, i + 1)

_quoted_phrases(text) == QuotedFrom(text, 1)

\* Last position of the run of [A-Za-z0-9] that starts at i
RECURSIVE AlnumEnd(_, _)
AlnumEnd(t, i) ==
    IF i < Len(t) /\ IsAlnum(t[i + 1]) THEN AlnumEnd(t, i + 1) ELSE i

\* [A-Z][A-Za-z0-9]+ at i: the end of the word, or 0
CapWordEnd(t, i) ==
    IF i <= Len(t) /\ IsUpper(t[i]) /\ AlnumEnd(t, i) > i THEN AlnumEnd(t, i) ELSE 0

BoundaryAfter(t, e) == e = Len(t) \/ ~IsWordChar(t[e + 1])

\* The end of the longest match of _CAP_SEQ_RE that continues a match ending
\* at e with up to more further words, or 0 when no such match ends at a
\* word boundary
RECURSIVE CapSeqEnd(_, _, _)
CapSeqEnd(t, e, more) ==
    LET next == SkipWs(t, e + 1)
        e2 == IF more > 0 /\ next > e + 1 THEN CapWordEnd(t, next) ELSE 0
        longer == IF e2 # 0 THEN CapSeqEnd(t, e2, more - 1) ELSE 0
    IN  IF longer # 0 THEN longer
        ELSE IF BoundaryAfter(t, e) THEN e
        ELSE 0

\* _CAP_SEQ_RE.finditer from position i
RECURSIVE CapsFrom(_, _)
CapsFrom(t, i) ==
    IF i > Len(t) THEN <<>>
    ELSE LET e1 == IF i = 1 \/ ~IsWordChar(t[i - 1]) THEN CapWordEnd(t, i) ELSE 0
             e == IF e1 # 0 THEN CapSeqEnd(t, e1, 4) ELSE 0
         IN  IF e # 0 THEN <<Strip(SubSeq(t, i, e))>> \o CapsFrom(t, e + 1)
             ELSE CapsFrom(t, i + 1)

_capitalized_sequences(text) == CapsFrom(text, 1)

\* The tokens of [A-Za-z0-9]{3,}, lower-cased, stopwords removed, by
\* frequency, the first k
_top_terms(text, k) ==
    LET tokens == SelectSeq(_tokenize(text),
                            LAMBDA w : Len(w) >= 3 /\ w \notin _STOPWORDS)
    IN  MostCommon(Distinct(tokens, {}), tokens, k)

\* Deduplicate by lower case, keeping the order; empty items are dropped
RECURSIVE DedupeUnits(_, _)
DedupeUnits(items, seen) ==
    IF items = <<>> THEN <<>>
    ELSE LET norm == Strip(Head(items))
             low == LowerText(norm)
         IN  IF norm = <<>> \/ low \in seen THEN DedupeUnits(Tail(items), seen)
             ELSE <<norm>> \o DedupeUnits(Tail(items), seen \cup {low})

extract_key_units(text) ==
    DedupeUnits(_try_parse_json(text) \o _quoted_phrases(text)
                    \o _capitalized_sequences(text) \o _top_terms(text, 10), {})

\* u in t for strings
IsSubstring(u, t) ==
    \E i \in 0..(Len(t) - Len(u)) : SubSeq(t, i + 1, i + Len(u)) = u

\* units[:limit]
SliceTo(units, limit) ==
    IF limit >= 0 THEN SubSeq(units, 1, Min(limit, Len(units)))
    ELSE SubSeq(units, 1, Len(units) + limit)

\* for u in sent_units: if u.lower() in rec_low: preserved.append(u)
RECURSIVE PreservedLoop(_, _)
PreservedLoop(sent_units, rec_low) ==
    IF sent_units = <<>> THEN <<>>
    ELSE (IF IsSubstring(LowerText(Head(sent_units)), rec_low)
          THEN <<Head(sent_units)>> ELSE <<>>)
             \o PreservedLoop(Tail(sent_units), rec_low)

\* Variant: u in received, without lower-casing either side
compute_key_info_preserved_cased(sent, received, limit) ==
    SelectSeq(SliceTo(extract_key_units(sent), limit),
              LAMBDA u : IsSubstring(u, received))

compute_key_info_preserved(sent, received, limit) ==
    PreservedLoop(SliceTo(extract_key_units(sent), limit), LowerText(received))

(***************************************************************************)
(* compute_key_info_preserved applied to texts built from a few words      *)
(***************************************************************************)
KeyWords ==
    { <<Quote, "D", "u", "n", "e", Quote>>, <<"D", "e", "n", "i", "s">>,
      <<"N", "o", "l", "a", "n">>, <<"t", "h", "e">>, <<"s", "c", "i">>,
      <<"S", "c", "i", "-", "F", "i">> }

\* {"user": {"top": ["Sci", {"a": 1}]}, "Dune": 1, "user": 2}
KeyJsonText ==
    <<"{">> \o Quoted(<<"u", "s", "e", "r">>) \o <<":", " ", "{">>
        \o Quoted(<<"t", "o", "p">>) \o <<":", " ", "[">> \o Quoted(<<"S", "c", "i">>)
        \o <<",", " ", "{">> \o Quoted(<<"a">>) \o <<":", " ", "1", "}", "]", "}", ",", " ">>
        \o Quoted(<<"D", "u", "n", "e">>) \o <<":", " ", "1", ",", " ">>
        \o Quoted(<<"u", "s", "e", "r">>) \o <<":", " ", "2", "}">>

SentTexts == TextsOf(KeyWords) \cup {KeyJsonText}

ReceivedTexts ==
    { <<>>,
      <<"d", "u", "n", "e", " ", "b", "y", " ", "D", "E", "N", "I", "S">>,
      <<"N", "o", "l", "a", "n", " ", "S", "C", "I", "-", "f", "i">>,
      <<"u", "s", "e", "r", ".", "t", "o", "p", "[", "1", "]", ".", "a", " ",
        "t", "h", "e", " ", "D", "u", "n", "e">> }

Limits == {0, 1, 20}

KeyInfoCalls ==
    { [fn |-> "compute_key_info_preserved", sent |-> a, received |-> b, limit |-> n] :
        a \in SentTexts, b \in ReceivedTexts, n \in Limits }

InitKeyInfo ==
    /\ IdleService /\ IdleRollup /\ IdleJudge /\ IdleExtract /\ IdleOverlap
    /\ callIn \in { Some(c) : c \in KeyInfoCalls }
    /\ callOut = Nothing

CallKeyInfoPreserved ==
    /\ Called("compute_key_info_preserved")
    /\ callOut' = Some(compute_key_info_preserved(The(callIn).sent, The(callIn).received,
                                                  The(callIn).limit))
    /\ UNCHANGED <<callIn, serviceVars, rollupVars, judgeVars, extractVars, overlapVars>>

NextKeyInfo == CallKeyInfoPreserved

SpecKeyInfo == InitKeyInfo /\ [][NextKeyInfo]_vars

\* C15: compute_key_info_preserved(sent, received, limit) returns, in
\* extraction order, exactly those of the first limit key units extracted from
\* sent whose lower-case form is a substring of lower-case received.
C15_PreservedAreTheUnitsFoundInReceived ==
    Returned("compute_key_info_preserved") =>
        LET first == SliceTo(extract_key_units(The(callIn).sent), The(callIn).limit)
            rec_low == LowerText(The(callIn).received)
            kept == { i \in DOMAIN first : IsSubstring(LowerText(first[i]), rec_low) }
            out == The(callOut)
        IN  /\ Len(out) = Cardinality(kept)
            /\ \A n \in DOMAIN out :
                  \E i \in kept :
                      /\ out[n] = first[i]
                      /\ Cardinality({ j \in kept : j < i }) = n - 1
            /\ \A n \in DOMAIN out : IsSubstring(LowerText(out[n]), rec_low)

\* Witness of C15: of three units one is kept through a match that needs the
\* lower-casing and one is dropped
C15_Witness ==
    /\ Returned("compute_key_info_preserved")
    /\ The(callIn).limit = 20
    /\ Len(extract_key_units(The(callIn).sent)) >= 3
    /\ Len(The(callOut)) \in 1..(Len(extract_key_units(The(callIn).sent)) - 1)
    /\ \E n \in DOMAIN The(callOut) :
          ~IsSubstring(The(callOut)[n], The(callIn).received)


(***************************************************************************)
(* The score constructors called directly, next to the service's use of    *)
(* them.  A run either exercises the constructors or the service: the two   *)
(* share no state.                                                          *)
(***************************************************************************)
Rejected == [error |-> "ValidationError", value |-> Nothing]
Accepted(v) == [error |-> "None", value |-> Some(v)]

\* EvalScores(fidelity=..., drift=..., compression=..., temporal_coherence=...)
NewEvalScores(fidelity, drift, compression, temporal) ==
    IF EvalScoresValid(fidelity, drift, compression, temporal)
    THEN Accepted(EvalScores(fidelity, drift, compression, temporal))
    ELSE Rejected

\* PipelineScore(avg_fidelity=..., avg_drift=..., total_compression=..., end_to_end_fidelity=...)
NewPipelineScore(af, ad, tc, ee) ==
    IF PipelineScoreValid(af, ad, tc, ee)
    THEN Accepted(PipelineScore(af, ad, tc, ee))
    ELSE Rejected

\* -0.000001, 0.0, 1.0 and 1.000001
ScoreValues == {-1, 0, Unit, Unit + 1}

EvalScoresCalls ==
    { [fn |-> "EvalScores", fidelity |-> f, drift |-> dr, compression |-> c,
       temporal |-> t] :
        f \in ScoreValues, dr \in ScoreValues, c \in ScoreValues,
        t \in {Nothing, Some(Unit), Some(Unit + 1)} }

PipelineScoreCalls ==
    { [fn |-> "PipelineScore", avg_fidelity |-> af, avg_drift |-> ad,
       total_compression |-> tc, end_to_end_fidelity |-> ee] :
        af \in ScoreValues, ad \in ScoreValues, tc \in ScoreValues, ee \in ScoreValues }

InitSchema ==
    /\ IdleService /\ IdleRollup /\ IdleJudge /\ IdleExtract /\ IdleOverlap
    /\ callIn \in {Nothing} \cup { Some(c) : c \in EvalScoresCalls \cup PipelineScoreCalls }
    /\ callOut = Nothing

CallEvalScores ==
    /\ Called("EvalScores")
    /\ LET c == The(callIn)
       IN  callOut' = Some(NewEvalScores(c.fidelity, c.drift, c.compression, c.temporal))
    /\ UNCHANGED <<callIn, serviceVars, rollupVars, judgeVars, extractVars, overlapVars>>

CallPipelineScore ==
    /\ Called("PipelineScore")
    /\ LET c == The(callIn)
       IN  callOut' = Some(NewPipelineScore(c.avg_fidelity, c.avg_drift,
                                            c.total_compression, c.end_to_end_fidelity))
    /\ UNCHANGED <<callIn, serviceVars, rollupVars, judgeVars, extractVars, overlapVars>>

NextSchema ==
    \/ CallEvalScores
    \/ CallPipelineScore
    \/ (IdleHarness /\ Evaluate)

SpecSchema == InitSchema /\ [][NextSchema]_vars

StoredScoresInRange ==
    \A i \in DOMAIN eval_handoffs :
        LET s == eval_handoffs[i].eval_scores
        IN  /\ 0 <= s.fidelity /\ s.fidelity <= Unit
            /\ 0 <= s.drift /\ s.drift <= Unit
            /\ 0 <= s.compression /\ s.compression <= Unit

\* C16: constructing EvalScores or PipelineScore with a fidelity, drift or
\* compression value outside [0,1] is rejected with an error; an accepted
\* object carries the values it was given, never clamped ones; and every
\* handoff record in the store has its three scores within [0,1].
C16_OutOfRangeScoresAreRejected ==
    /\ Returned("EvalScores") =>
          LET c == The(callIn)
              r == The(callOut)
              three == {c.fidelity, c.drift, c.compression}
          IN  /\ (\E v \in three : v < 0 \/ v > Unit) =>
                    r.error = "ValidationError" /\ r.value = Nothing
              /\ r.error = "None" =>
                    /\ The(r.value).fidelity = c.fidelity
                    /\ The(r.value).drift = c.drift
                    /\ The(r.value).compression = c.compression
              /\ ((\A v \in three : 0 <= v /\ v <= Unit) /\ c.temporal # Some(Unit + 1)) =>
                    r.error = "None"
    /\ Returned("PipelineScore") =>
          LET c == The(callIn)
              r == The(callOut)
              four == {c.avg_fidelity, c.avg_drift, c.total_compression,
                       c.end_to_end_fidelity}
          IN  /\ (\E v \in four : v < 0 \/ v > Unit) =>
                    r.error = "ValidationError" /\ r.value = Nothing
              /\ r.error = "None" =>
                    /\ The(r.value).avg_fidelity = c.avg_fidelity
                    /\ The(r.value).avg_drift = c.avg_drift
                    /\ The(r.value).total_compression = c.total_compression
                    /\ The(r.value).end_to_end_fidelity = c.end_to_end_fidelity
              /\ (\A v \in four : 0 <= v /\ v <= Unit) => r.error = "None"
    /\ StoredScoresInRange

\* Witness of C16: EvalScores was called with compression just above 1 and
\* everything else in range, and raised
C16_Witness ==
    /\ Returned("EvalScores")
    /\ The(callIn).compression = Unit + 1
    /\ The(callIn).fidelity = Unit /\ The(callIn).drift = 0
    /\ The(callIn).temporal = Nothing
    /\ The(callOut).error = "ValidationError"

(***************************************************************************)
(* Claims about the service's failures, identifiers and metadata           *)
(***************************************************************************)
\* The errors of the model that do not come from the store
NonStorageErrors == {"EvaluationMetricError", "ValidationError"}

\* C17: a storage failure during evaluate_and_store_handoff or
\* finalize_pipeline (inserting the handoff, reading the pipeline's handoffs or
\* upserting the summary) reaches the caller as EvaluatorServiceError, never
\* as a raw store error or an AggregationError.
C17_StorageFailuresSurfaceAsServiceError ==
    (~result.ok /\ result.value \notin NonStorageErrors) =>
        result.value = "EvaluatorServiceError"

\* The pipeline the call that persisted eval_handoffs[i] was made for (the
\* record itself carries no pipeline_id)
PipelineOfRecord(i) == issued[i].pipeline_id

\* C18: after any sequence of evaluate_and_store_handoff calls, no two
\* persisted handoff records of the same pipeline share a handoff_id.
C18_HandoffIdUniqueWithinPipeline ==
    \A i, j \in DOMAIN eval_handoffs :
        (i # j /\ PipelineOfRecord(i) = PipelineOfRecord(j)) =>
            eval_handoffs[i].handoff_id # eval_handoffs[j].handoff_id

\* C19: every handoff record persisted by evaluate_and_store_handoff has a
\* metadata map that carries the format discriminator and tokens.before and
\* tokens.after, the token counts the compression score was computed from,
\* whether the caller passed a metadata map or not.
C19_MetadataCarriesFormatAndTokens ==
    \A i \in DOMAIN eval_handoffs :
        LET doc == eval_handoffs[i]
            md == doc.metadata
        IN  /\ "format" \in DOMAIN md
            /\ md.format # None
            /\ "tokens" \in DOMAIN md
            /\ doc.eval_scores.compression =
                  compute_compression_efficiency(md.tokens.before, md.tokens.after)

(***************************************************************************)
(* Overlapping finalize_pipeline calls.  The call reads the handoffs       *)
(* (service.py:105) and later upserts the summary (service.py:111); these   *)
(* are two store operations with no lock between them, so other calls can  *)
(* act in between.  evaluate_and_store_handoff touches the store once.      *)
(***************************************************************************)
\* handoffs = get_handoffs_by_pipeline(self.client, pipeline_id)
FinalizeRead(f, pid, readOk) ==
    /\ finProc[f].pc = "idle"
    /\ ncalls < MaxCalls
    /\ ncalls' = ncalls + 1
    /\ IF ~readOk
       THEN /\ result' = Failure("finalize", pid, None, "AggregationError")
            /\ UNCHANGED finProc
       ELSE /\ finProc' = [finProc EXCEPT ![f] =
                              [pc |-> "read", pipeline_id |-> pid,
                               handoffs |-> get_handoffs_by_pipeline(eval_handoffs, pid),
                               seen |-> Len(eval_handoffs)]]
            /\ UNCHANGED result
    /\ UNCHANGED <<eval_handoffs, eval_pipelines, issued, lastFin, writes>>

\* score, summary, upsert_pipeline_rollup(...), return summary
FinalizeWrite(f, writeOk) ==
    /\ finProc[f].pc = "read"
    /\ LET pid == finProc[f].pipeline_id
           handoffs == finProc[f].handoffs
           score == compute_pipeline_rollup(handoffs)
       IN  IF ~writeOk
           THEN /\ result' = Failure("finalize", pid, None, "EvaluatorServiceError")
                /\ UNCHANGED <<eval_pipelines, writes>>
           ELSE /\ eval_pipelines' = upsert_pipeline_rollup(eval_pipelines, pid, score, handoffs)
                /\ writes' = Append(writes, [pipeline_id |-> pid, handoffs |-> handoffs,
                                             seen |-> finProc[f].seen])
                /\ result' = Success("finalize", pid, None,
                                     PipelineEvaluation(pid, handoffs, score))
    /\ finProc' = [finProc EXCEPT ![f] = IdleCaller]
    /\ UNCHANGED <<eval_handoffs, ncalls, issued, lastFin>>

BeginFinalize ==
    /\ \E f \in FinProcs, pid \in PipelineIds, readOk \in BOOLEAN : FinalizeRead(f, pid, readOk)
    /\ UNCHANGED <<rollupVars, judgeVars, extractVars, harnessVars>>

EndFinalize ==
    /\ \E f \in FinProcs, writeOk \in BOOLEAN : FinalizeWrite(f, writeOk)
    /\ UNCHANGED <<rollupVars, judgeVars, extractVars, harnessVars>>

NextOverlap == Evaluate \/ BeginFinalize \/ EndFinalize

SpecOverlap == Init /\ [][NextOverlap]_vars

\* The records persisted for pipeline pid among the first n of the store
PersistedFor(pid, n) ==
    { eval_handoffs[k] : k \in { k \in 1..n : PipelineOfRecord(k) = pid } }

\* C20: with handoffs only appended, for any interleaving of
\* evaluate_and_store_handoff and finalize_pipeline calls on a pipeline,
\* overlapping finalize calls included, the handoff set recorded in the stored
\* summary never shrinks from one summary write to the next, and each write
\* records the handoff set the pipeline had when the call read it, so that
\* successive upserts converge towards the current handoff set.
C20_SummaryHandoffsGrowTowardsTheStore ==
    /\ \A i, j \in DOMAIN writes :
          (i < j /\ writes[i].pipeline_id = writes[j].pipeline_id) =>
              SeqSet(writes[i].handoffs) \subseteq SeqSet(writes[j].handoffs)
    /\ \A i \in DOMAIN writes :
          SeqSet(writes[i].handoffs) = PersistedFor(writes[i].pipeline_id, writes[i].seen)

\* The last summary write made for pipeline pid (0 when there is none)
LastWriteFor(pid) ==
    LET made == { i \in DOMAIN writes : writes[i].pipeline_id = pid }
    IN  IF made = {} THEN 0 ELSE CHOOSE i \in made : \A j \in made : j <= i

NoFinalizeRunning == \A f \in FinProcs : finProc[f].pc = "idle"

\* C21: when finalize_pipeline(p) calls race with each other and with inserts,
\* the stored summary of p is at every moment the pair (handoff snapshot,
\* rollup of that snapshot) of one finalize call, the last writer's, and a
\* later finalize_pipeline(p) that runs with no concurrent activity leaves the
\* summary consistent with all current handoffs.
C21_SummaryIsOneCallsSnapshotAndCatchesUp ==
    \A pid \in PipelineIds :
        LET w == LastWriteFor(pid)
            stored == SummariesOf(eval_pipelines, pid)
        IN  /\ \A i \in DOMAIN stored :
                  /\ w # 0
                  /\ stored[i].handoffs = writes[w].handoffs
                  /\ stored[i].overall_pipeline_score =
                        compute_pipeline_rollup(writes[w].handoffs)
            /\ (w # 0 /\ NoFinalizeRunning /\ writes[w].seen = Len(eval_handoffs)) =>
                  \A i \in DOMAIN stored :
                      SeqSet(stored[i].handoffs) = PersistedFor(pid, Len(eval_handoffs))

\* The positions of the summary documents stored under pipeline id pid
SummaryPositions(pid) ==
    { i \in DOMAIN eval_pipelines : eval_pipelines[i].pipeline_id = pid }

C23_NoCredentialNoRequest ==
    ~api_key =>
        /\ requests = <<>> /\ sleeps = <<>> /\ attempt = 0
        /\ jpc # "posting"
        /\ JudgeReturned => (jmode = "unavailable" /\ jresult = NoneResult)

\* Witness of C23: the call has returned without a credential
C23_Witness == ~api_key /\ JudgeReturned /\ requests = <<>>

(***************************************************************************)
(* _extract_json applied to texts that offer several strategies at once    *)
(***************************************************************************)
\* {"a":"1"}, {"b":"2"}, {a} (braces, no JSON) and an object whose string
\* value holds a fenced {}
CascadeBodies ==
    { <<"{">> \o Quoted(<<"a">>) \o <<":">> \o Quoted(<<"1">>) \o <<"}">>,
      <<"{">> \o Quoted(<<"b">>) \o <<":">> \o Quoted(<<"2">>) \o <<"}">>,
      <<"{", "a", "}">>,
      <<"{">> \o Quoted(<<"a">>) \o <<":">> \o Quoted(Fence \o <<"{", "}">> \o Fence)
          \o <<"}">> }

\* A body as it is, in a json fence, in a bare fence and in a json tag
Wrappings(x) ==
    { x, FenceJson \o x \o Fence, Fence \o x \o Fence, TagOpen \o x \o TagClose }

CascadeParts ==
    UNION { Wrappings(x) : x \in CascadeBodies } \cup { <<>>, <<"o", "k">> }

CascadeTexts == { a \o <<" ">> \o b : a \in CascadeParts, b \in CascadeParts }

InitCascade ==
    /\ IdleService /\ IdleRollup /\ IdleJudge /\ IdleExtract /\ IdleOverlap
    /\ callIn \in { Some([fn |-> "_extract_json", text |-> t]) : t \in CascadeTexts }
    /\ callOut = Nothing

CallExtractJson ==
    /\ Called("_extract_json")
    /\ callOut' = Some(_extract_json(The(callIn).text))
    /\ UNCHANGED <<callIn, serviceVars, rollupVars, judgeVars, extractVars, overlapVars>>

NextCascade == CallExtractJson

SpecCascade == InitCascade /\ [][NextCascade]_vars

\* json.loads of group 1 of the leftmost match of one code block pattern
BlockStrategy(t, open, close) ==
    LET g == SearchGroup(t, 1, open, close)
    IN  IF IsSome(g) THEN JsonLoads(The(g)) ELSE ParseFail

\* The strategies of the cascade on the stripped text, in the order of the code
StrategyResults(t) ==
    << JsonLoads(t),
       BlockStrategy(t, FenceJson, Fence),
       BlockStrategy(t, Fence, Fence),
       BlockStrategy(t, TagOpen, TagClose),
       GreedyBlock(t),
       BraceSlice(t) >>

C25_JudgeScoresInRange ==
    (JudgeReturned /\ jresult.kind \in {"judged", "fallback"}) =>
        \A k \in {"fidelity", "drift", "completeness", "consistency", "overall_score"} :
            0 <= jresult[k] /\ jresult[k] <= Unit

\* Witness of C25: the provider answered fidelity 1.5 and drift -1, and the
\* normalized result carries 1 and 0
C25_Witness ==
    /\ JudgeReturned /\ jresult.kind = "judged"
    /\ jresult.fidelity = Unit /\ jresult.drift = 0
    /\ jresult.completeness = 500000 /\ jresult.consistency = 800000

\* C26: in every result returned by judge_handoff overall_score equals
\* fidelity*0.35 + (1-drift)*0.25 + completeness*0.25 + consistency*0.15 and
\* grade is the threshold mapping (A >= 0.90, B >= 0.80, C >= 0.70, D >= 0.60,
\* else F) of that same overall_score, on the heuristic-fallback path as well
\* as on the normalized path.
C26_GradeIsTheMappingOfOverallScore ==
    (JudgeReturned /\ jresult.kind \in {"judged", "fallback"}) =>
        /\ jresult.overall_score =
              (jresult.fidelity \div 100) * 35 + ((Unit - jresult.drift) \div 100) * 25
                  + (jresult.completeness \div 100) * 25
                  + (jresult.consistency \div 100) * 15
        /\ jresult.grade =
              (IF jresult.overall_score >= 900000 THEN "A"
               ELSE IF jresult.overall_score >= 800000 THEN "B"
               ELSE IF jresult.overall_score >= 700000 THEN "C"
               ELSE IF jresult.overall_score >= 600000 THEN "D"
               ELSE "F")

(***************************************************************************)
(* judge_handoff_via_fireworks from a response text on: extraction,        *)
(* normalisation or fallback                                               *)
(***************************************************************************)
\* {"fidelity":"0.9","preserved":[]}: an object without drift
T_no_drift ==
    <<"{">> \o Member("fidelity", Quoted(<<"0", ".", "9">>)) \o <<",">>
        \o Member("preserved", <<"[", "]">>) \o <<"}">>

ResponseTexts == JudgeTexts \cup {T_no_drift}

InitResponse ==
    /\ IdleService /\ IdleRollup /\ IdleJudge /\ IdleExtract /\ IdleOverlap
    /\ callIn \in { Some([fn |-> "judge_handoff", text |-> t, context_sent |-> a,
                          context_received |-> b]) :
                      t \in ResponseTexts, a \in Contexts, b \in Contexts }
    /\ callOut = Nothing

CallJudgeOnResponse ==
    /\ Called("judge_handoff")
    /\ callOut' = Some(JudgeOutcome([kind |-> "text", text |-> The(callIn).text],
                                    [context_sent |-> The(callIn).context_sent,
                                     context_received |-> The(callIn).context_received]))
    /\ UNCHANGED <<callIn, serviceVars, rollupVars, judgeVars, extractVars, overlapVars>>

NextResponse == CallJudgeOnResponse

SpecResponse == InitResponse /\ [][NextResponse]_vars

\* The extracted value is an object with members fidelity, drift and preserved
CarriesScores(data) ==
    /\ data.t = "obj"
    /\ \A key \in {"fidelity", "drift", "preserved"} :
          \E i \in DOMAIN data.m : data.m[i].k = <<key>>

\* C27: a provider response that, after the extraction cascade, is not a JSON
\* object carrying fidelity, drift and preserved (a JSON array or number, or
\* an object that lacks fidelity or drift) makes judge_handoff return the
\* heuristic fallback instead of a normalized judge result.
C27_OtherShapesFallBack ==
    (Returned("judge_handoff") /\ ~CarriesScores(_extract_json(The(callIn).text))) =>
        The(callOut).kind = "fallback"

\* C28: when evaluate_and_store_handoff fails (negative token counts or
\* mismatched vector shapes, a score rejected by schema validation, or a
\* failed insert) no handoff record is persisted and both stores are left
\* exactly as they were before the call.
C28_FailedEvaluateLeavesStoresUntouched ==
    [][(ncalls' # ncalls /\ result'.op = "evaluate" /\ ~result'.ok) =>
          (eval_handoffs' = eval_handoffs /\ eval_pipelines' = eval_pipelines)]_vars

\* Witness of C28: two handoffs were stored and a third call failed at the insert
C28_Witness ==
    /\ result.op = "evaluate" /\ ~result.ok /\ result.value = "EvaluatorServiceError"
    /\ ncalls = 3 /\ Len(eval_handoffs) = 2

(***************************************************************************)
(* judge.py: smart_truncate, the cut applied to both contexts before the   *)
(* prompt is built.  A text is a sequence of characters; the marker is one *)
(* symbol.                                                                 *)
(***************************************************************************)
TruncationMarker == <<"...[truncated]">>

\* Variant: brackets and braces are looked for first
boundaries_brackets_first == << <<"]">>, <<"}">>, <<"-", " ">>, <<"\n">>, <<".", " ">> >>

\* boundaries = ['. ', '\n', '- ', '}', ']']
boundaries == << <<".", " ">>, <<"\n">>, <<"-", " ">>, <<"}">>, <<"]">> >>

\* t.rfind(pat): the highest index, counted from 0, at which pat occurs in t,
\* searched downwards from index i; -1 when there is none
RECURSIVE RFindFrom(_, _, _)
RFindFrom(t, pat, i) ==
    IF i < 0 THEN -1
    ELSE IF i + Len(pat) <= Len(t) /\ SubSeq(t, i + 1, i + Len(pat)) = pat THEN i
    ELSE RFindFrom(t, pat, i - 1)

\* The for loop over boundaries from boundary k on; last_boundary > max_chars * 0.8
RECURSIVE CutAtBoundary(_, _, _)
CutAtBoundary(truncated, max_chars, k) ==
    IF k > Len(boundaries) THEN truncated \o TruncationMarker
    ELSE LET boundary == boundaries[k]
             last_boundary == RFindFrom(truncated, boundary, Len(truncated) - 1)
         IN  IF 5 * last_boundary > 4 * max_chars
             THEN SubSeq(truncated, 1, last_boundary + Len(boundary)) \o TruncationMarker
             ELSE CutAtBoundary(truncated, max_chars, k + 1)

smart_truncate(text, max_chars) ==
    IF Len(text) <= max_chars THEN text
    ELSE CutAtBoundary(SubSeq(text, 1, max_chars), max_chars, 1)

\* The limits the harness passes for max_chars (the code's default is 3000)
CharLimits == {10, 20}

\* The four characters before the limit and what lies beyond it
TailChars == {"a", ".", " ", "\n", "-", "}", "]"}
Overflows == { <<>>, <<"a">>, <<" ">>, <<"}", "a">> }

Filler(n) == [i \in 1..n |-> "a"]

TruncateCalls ==
    { [fn |-> "smart_truncate", max_chars |-> m,
       text |-> Filler(m - 4) \o <<c1, c2, c3, c4>> \o over] :
        m \in CharLimits, c1 \in TailChars, c2 \in TailChars, c3 \in TailChars,
        c4 \in TailChars, over \in Overflows }

InitTruncate ==
    /\ IdleService /\ IdleRollup /\ IdleJudge /\ IdleExtract /\ IdleOverlap
    /\ callIn \in { Some(c) : c \in TruncateCalls }
    /\ callOut = Nothing

CallSmartTruncate ==
    /\ Called("smart_truncate")
    /\ callOut' = Some(smart_truncate(The(callIn).text, The(callIn).max_chars))
    /\ UNCHANGED <<callIn, serviceVars, rollupVars, judgeVars, extractVars, overlapVars>>

NextTruncate == CallSmartTruncate

SpecTruncate == InitTruncate /\ [][NextTruncate]_vars

\* The indices, counted from 0, at which pat occurs within the first limit
\* characters of t and beyond 80% of limit
BoundaryStarts(t, pat, limit) ==
    { i \in 0..(limit - Len(pat)) :
        SubSeq(t, i + 1, i + Len(pat)) = pat /\ 5 * i > 4 * limit }

SetMax(S) == CHOOSE x \in S : \A y \in S : y <= x

\* The kept text of a result that was cut
KeptText(out) == SubSeq(out, 1, Len(out) - 1)

\* C29 as stated: input no longer than the limit is passed through unchanged;
\* longer input is cut at the natural boundary (sentence end, newline, list
\* item, closing brace or bracket) that lies nearest below the limit, provided
\* it falls within the last 20% of the budget, and otherwise at the hard
\* limit; the kept text never exceeds the limit.
C29_CutAtNearestBoundary ==
    Returned("smart_truncate") =>
        LET t == The(callIn).text
            limit == The(callIn).max_chars
            out == The(callOut)
            kinds == { <<".", " ">>, <<"\n">>, <<"-", " ">>, <<"}">>, <<"]">> }
            ends == UNION { { i + Len(pat) : i \in BoundaryStarts(t, pat, limit) } :
                             pat \in kinds }
        IN  IF Len(t) <= limit THEN out = t
            ELSE /\ out[Len(out)] = TruncationMarker[1]
                 /\ Len(KeptText(out)) <= limit
                 /\ KeptText(out) =
                       SubSeq(t, 1, IF ends = {} THEN limit ELSE SetMax(ends))

\* C29 amended: input no longer than the limit is passed through unchanged;
\* longer input is cut right after the last occurrence, within the limit, of
\* the first boundary kind in the order sentence end, newline, list item,
\* closing brace, closing bracket that has its last occurrence beyond 80% of
\* the limit, whether or not a boundary of a later kind lies nearer to the
\* limit, and at the hard limit when no kind has one; the kept text never
\* exceeds the limit.
C29_CutAtFirstKindOfBoundary ==
    Returned("smart_truncate") =>
        LET t == The(callIn).text
            limit == The(callIn).max_chars
            out == The(callOut)
            kinds == << <<".", " ">>, <<"\n">>, <<"-", " ">>, <<"}">>, <<"]">> >>
            found == { k \in DOMAIN kinds : BoundaryStarts(t, kinds[k], limit) # {} }
            first == CHOOSE k \in found : \A j \in found : k <= j
        IN  IF Len(t) <= limit THEN out = t
            ELSE /\ out[Len(out)] = TruncationMarker[1]
                 /\ Len(KeptText(out)) <= limit
                 /\ KeptText(out) =
                       SubSeq(t, 1, IF found = {} THEN limit
                                    ELSE SetMax(BoundaryStarts(t, kinds[first], limit))
                                             + Len(kinds[first]))

\* Witness of C29: a newline and, nearer to the limit, a closing brace lie in
\* the last 20%, and the text is cut after the newline
C29_Witness ==
    /\ Returned("smart_truncate")
    /\ LET t == The(callIn).text
           limit == The(callIn).max_chars
       IN  /\ Len(t) > limit
           /\ t[limit - 1] = "\n" /\ t[limit] = "}"
           /\ The(callOut) = SubSeq(t, 1, limit - 1) \o TruncationMarker

(***************************************************************************)
(* backend/api/routes/evaluations.py: DELETE /pipelines/{pipeline_id}       *)
(***************************************************************************)
\* handoffs_coll.delete_many({"pipeline_id": pipeline_id}): the documents the
\* filter does not match remain
delete_many(coll, pid) == SelectSeq(coll, LAMBDA doc : ~MatchesPipeline(doc, pid))

\* pipelines_coll.delete_one({"pipeline_id": pipeline_id}): the first matching
\* document is removed
delete_one(coll, pid) ==
    LET i == FirstMatch(coll, pid, 1)
    IN  IF i = 0 THEN coll
        ELSE SubSeq(coll, 1, i - 1) \o SubSeq(coll, i + 1, Len(coll))

\* delete_pipeline: the handoffs are deleted first, then the summary; 404 when
\* delete_one removed nothing, 500 when a store operation raised
delete_pipeline(pid, manyOk, oneOk) ==
    LET kept == delete_many(eval_handoffs, pid)
        deleted_handoffs == Len(eval_handoffs) - Len(kept)
        rest == delete_one(eval_pipelines, pid)
        deleted_count == Len(eval_pipelines) - Len(rest)
    IN  /\ ncalls < MaxCalls
        /\ ncalls' = ncalls + 1
        /\ UNCHANGED <<issued, lastFin>>
        /\ IF ~manyOk
           THEN /\ result' = Failure("delete", pid, None, "500")
                /\ UNCHANGED <<eval_handoffs, eval_pipelines>>
           ELSE /\ eval_handoffs' = kept
                /\ IF ~oneOk
                   THEN /\ result' = Failure("delete", pid, None, "500")
                        /\ UNCHANGED eval_pipelines
                   ELSE IF deleted_count = 0
                   THEN /\ result' = Failure("delete", pid, None, "404")
                        /\ UNCHANGED eval_pipelines
                   ELSE /\ eval_pipelines' = rest
                        /\ result' = Success("delete", pid, None,
                                             [deleted_pipeline |-> pid,
                                              deleted_handoffs |-> deleted_handoffs])

DeletePipeline ==
    /\ \E pid \in PipelineIds, manyOk \in BOOLEAN, oneOk \in BOOLEAN :
          delete_pipeline(pid, manyOk, oneOk)
    /\ UNCHANGED <<rollupVars, judgeVars, extractVars, harnessVars, overlapVars>>

NextDelete == Evaluate \/ Finalize \/ DeletePipeline

SpecDelete == Init /\ [][NextDelete]_vars

\* The documents of the collection that evaluate_and_store_handoff stored for
\* pipeline pid
HandoffsStoredFor(coll, pid) ==
    { doc \in SeqSet(coll) :
        \E i \in DOMAIN issued : issued[i].pipeline_id = pid /\ issued[i].doc = doc }

\* C30: a delete_pipeline call for an id that has no stored summary responds
\* 404 and removes nothing, the handoff records stored under that pipeline id
\* are still present afterwards; when the call responds 200, the summary and
\* all the handoffs of that id are gone.
C30_DeleteIsAllOrNothing ==
    [][(ncalls' # ncalls /\ result'.op = "delete") =>
          LET pid == result'.pipeline_id
          IN  /\ (SummariesOf(eval_pipelines, pid) = <<>> /\ result'.value # "500") =>
                    /\ ~result'.ok /\ result'.value = "404"
                    /\ eval_handoffs' = eval_handoffs
                    /\ eval_pipelines' = eval_pipelines
              /\ result'.ok =>
                    /\ SummariesOf(eval_pipelines', pid) = <<>>
                    /\ HandoffsStoredFor(eval_handoffs', pid) = {}]_vars

====
